---- MODULE Spec2Model ----
(***************************************************************************)
(* Model of the keyboard shortcut service of the ClipChat extension        *)
(* (class KeyboardShortcutManager) together with the host document that    *)
(* delivers keydown events to it.                                          *)
(*                                                                         *)
(* Strings that the code transforms (shortcut.key, event.key) are kept as  *)
(* sequences of one-character strings so that toLowerCase() is computed    *)
(* character by character; the canonical key produced by getShortcutKey    *)
(* is an ordinary string built with join('+').                             *)
(***************************************************************************)
EXTENDS Integers, Sequences, FiniteSets, TLC

VARIABLES
  shortcuts,    \* Map<string, ShortcutAction>: insertion-ordered entries [k, v]
  isListening,  \* KeyboardShortcutManager.isListening
  listeners,    \* keydown listeners attached to the document, in attachment order
  event,        \* <<e>>: the key event delivered by the latest step, <<>> if the latest step was an API call
  effects,      \* what the delivery of that event did, in order
  call,         \* history: the latest step, the listening flag before it, the DOM call it made,
                \* its argument <<a>>, whether the argument's key was present, whether it repeats the call before
  listed,       \* the array returned by the latest getShortcuts call, until the next call on the registry
  thrown,       \* whether the latest delivery ended with an error thrown by the invoked action
  delivered,    \* history: for each delivery so far, <<a>> if a binding with action a matched it, else <<>>
  invocations,  \* history: the actions invoked so far, in order
  platform,     \* navigator.platform
  formatted,    \* <<[shortcut, out]>>: the latest formatShortcut call and its result
  lastReg,      \* history: canonical key -> action of the latest register call not unregistered since
  replaced,     \* history: <<[k, old]>> the latest binding replaced by a register with another action
  mounted,      \* MainContent: whether onMount has run
  message,      \* MainContent.message: the text of the input, as a sequence of characters
  messages,     \* MainContent.messages, each with the chat request it started or answers (history)
  isLoading,    \* MainContent.isLoading
  errorMessage, \* MainContent.errorMessage
  attachedImage,\* MainContent.attachedImage
  cropAreaInfo, \* MainContent.cropAreaInfo
  batchImages,  \* MainContent.batchImages
  isBatchMode,  \* MainContent.isBatchMode
  apiKey,       \* whether $settings.apiKey is set
  requests,     \* the chat requests in flight (awaited sendChatRequest calls), by number
  issued,       \* history: the number of chat requests issued so far
  tasks,        \* the pending callbacks of screenshot captures: how many of each kind
  response,     \* what the onMessage listener did with the latest runtime message
  instance      \* history: the number of MainContent instances created so far

vars == <<shortcuts, isListening, listeners, event, effects, call, listed, thrown,
          delivered, invocations, platform, formatted, lastReg, replaced,
          mounted, message, messages, isLoading, errorMessage, attachedImage, cropAreaInfo,
          batchImages, isBatchMode, apiKey, requests, issued, tasks, response, instance>>

\* what the registry operations never touch
orderVars == <<delivered, invocations>>
formatVars == <<platform, formatted>>

\* the state of the MainContent component and of its asynchronous work
appVars == <<mounted, message, messages, isLoading, errorMessage, attachedImage, cropAreaInfo,
             batchImages, isBatchMode, apiKey, requests, issued, tasks, response, instance>>

\* what the MainContent component reaches only through register and startListening
registryVars == <<shortcuts, isListening, listeners, event, effects, call, listed, thrown,
                  lastReg, replaced>>

-----------------------------------------------------------------------------
(* Bounds and input sets *)

MaxBindings == 2

\* the number of deliveries whose history is kept
MaxLog == 3

Handlers == {"H1", "H2"}

\* the actions whose invocation throws
Throwing == {"H2"}

KeyLowerS == <<"s">>
KeyUpperS == <<"S">>
KeyShift == <<"S", "h", "i", "f", "t">>
NoKey == <<>>

Mods(c, a, s, m) == [ctrlKey |-> c, altKey |-> a, shiftKey |-> s, metaKey |-> m]

Ctrl == Mods(TRUE, FALSE, FALSE, FALSE)
CtrlShift == Mods(TRUE, FALSE, TRUE, FALSE)

\* the combinations handed to register
RegCombos ==
  {[key |-> KeyLowerS, mods |-> Ctrl], [key |-> KeyLowerS, mods |-> CtrlShift],
   [key |-> KeyShift, mods |-> Ctrl], [key |-> NoKey, mods |-> CtrlShift]}

\* the combinations handed to unregister
UnregMods == {Ctrl, CtrlShift}
UnregKeys == {KeyLowerS, KeyUpperS, KeyShift, NoKey}

EventMods ==
  {Mods(FALSE, FALSE, FALSE, FALSE), Ctrl, CtrlShift, Mods(TRUE, TRUE, TRUE, FALSE),
   Mods(TRUE, FALSE, TRUE, TRUE)}
EventKeys == {KeyLowerS, KeyUpperS, KeyShift}

\* event.target: its tagName and its isContentEditable flag
Targets ==
  {[tagName |-> "DIV", isContentEditable |-> FALSE],
   [tagName |-> "INPUT", isContentEditable |-> FALSE],
   [tagName |-> "TEXTAREA", isContentEditable |-> FALSE],
   [tagName |-> "DIV", isContentEditable |-> TRUE]}

\* values of navigator.platform
PlatformMac == <<"M", "a", "c", "I", "n", "t", "e", "l">>
PlatformWin == <<"W", "i", "n", "3", "2">>
PlatformLinux == <<"L", "i", "n", "u", "x", " ", "x", "8", "6", "_", "6", "4">>
Platforms == {PlatformMac, PlatformWin, PlatformLinux}

Binding(key, m, h) ==
  [key |-> key, ctrlKey |-> m.ctrlKey, altKey |-> m.altKey,
   shiftKey |-> m.shiftKey, metaKey |-> m.metaKey, action |-> h]

Bindings == {Binding(c.key, c.mods, h) : c \in RegCombos, h \in Handlers}

\* Partial<ShortcutAction> handed to unregister: no action, no description
Partials == {Binding(key, m, "") : key \in UnregKeys, m \in UnregMods}

KeyEvent(key, m, t) ==
  [key |-> key, ctrlKey |-> m.ctrlKey, altKey |-> m.altKey,
   shiftKey |-> m.shiftKey, metaKey |-> m.metaKey, target |-> t]

Events == {KeyEvent(key, m, t) : key \in EventKeys, m \in EventMods, t \in Targets}

-----------------------------------------------------------------------------
(* String helpers *)

UpperAlpha ==
  <<"A", "B", "C", "D", "E", "F", "G", "H", "I", "J", "K", "L", "M",
    "N", "O", "P", "Q", "R", "S", "T", "U", "V", "W", "X", "Y", "Z">>

LowerAlpha ==
  <<"a", "b", "c", "d", "e", "f", "g", "h", "i", "j", "k", "l", "m",
    "n", "o", "p", "q", "r", "s", "t", "u", "v", "w", "x", "y", "z">>

\* the lower-case letter of each upper-case letter, and the reverse
LowerOf == [c \in {UpperAlpha[i] : i \in 1..26} |->
              LowerAlpha[CHOOSE i \in 1..26 : UpperAlpha[i] = c]]

UpperOf == [c \in {LowerAlpha[i] : i \in 1..26} |->
              UpperAlpha[CHOOSE i \in 1..26 : LowerAlpha[i] = c]]

LowerChar(c) == IF c \in DOMAIN LowerOf THEN LowerOf[c] ELSE c

UpperChar(c) == IF c \in DOMAIN UpperOf THEN UpperOf[c] ELSE c

\* String.prototype.toUpperCase on a sequence of characters
ToUpperCase(s) == [i \in 1..Len(s) |-> UpperChar(s[i])]

\* String.prototype.indexOf(sub) >= 0
Contains(s, sub) ==
  \E i \in 1..(Len(s) - Len(sub) + 1) : SubSeq(s, i, i + Len(sub) - 1) = sub

\* String.prototype.toLowerCase on a sequence of characters
ToLowerCase(s) == [i \in 1..Len(s) |-> LowerChar(s[i])]

RECURSIVE Str(_)
\* the string made of the characters of s
Str(s) == IF s = <<>> THEN "" ELSE Head(s) \o Str(Tail(s))

RECURSIVE Join(_, _)
\* Array.prototype.join
Join(parts, sep) ==
  IF parts = <<>> THEN ""
  ELSE IF Len(parts) = 1 THEN parts[1]
  ELSE parts[1] \o sep \o Join(Tail(parts), sep)

-----------------------------------------------------------------------------
(* KeyboardShortcutManager *)

\* getShortcutKey that joins the key as given, without lowercasing it
getShortcutKeyNoLower(shortcut) ==
  Join((IF shortcut.ctrlKey THEN <<"ctrl">> ELSE <<>>)
         \o (IF shortcut.altKey THEN <<"alt">> ELSE <<>>)
         \o (IF shortcut.shiftKey THEN <<"shift">> ELSE <<>>)
         \o (IF shortcut.metaKey THEN <<"meta">> ELSE <<>>)
         \o (IF shortcut.key # <<>> THEN <<Str(shortcut.key)>> ELSE <<>>),
       "+")

\* getShortcutKey that appends the key without testing that it is there
getShortcutKeyAlwaysKey(shortcut) ==
  Join((IF shortcut.ctrlKey THEN <<"ctrl">> ELSE <<>>)
         \o (IF shortcut.altKey THEN <<"alt">> ELSE <<>>)
         \o (IF shortcut.shiftKey THEN <<"shift">> ELSE <<>>)
         \o (IF shortcut.metaKey THEN <<"meta">> ELSE <<>>)
         \o <<Str(ToLowerCase(shortcut.key))>>,
       "+")

\* getShortcutKey: the modifiers present, in the order ctrl, alt, shift, meta,
\* then the lowercased key if it is not empty, joined with '+'
getShortcutKey(shortcut) ==
  Join((IF shortcut.ctrlKey THEN <<"ctrl">> ELSE <<>>)
         \o (IF shortcut.altKey THEN <<"alt">> ELSE <<>>)
         \o (IF shortcut.shiftKey THEN <<"shift">> ELSE <<>>)
         \o (IF shortcut.metaKey THEN <<"meta">> ELSE <<>>)
         \o (IF shortcut.key # <<>> THEN <<Str(ToLowerCase(shortcut.key))>> ELSE <<>>),
       "+")

\* Map.prototype.has / get / set / delete on the insertion-ordered entries
MapHas(m, k) == \E i \in 1..Len(m) : m[i].k = k

MapGet(m, k) == m[CHOOSE i \in 1..Len(m) : m[i].k = k].v

\* set that adds an entry even when the key is already present
MapSetAppend(m, k, v) == Append(m, [k |-> k, v |-> v])

\* set that keeps the stored value when the key is already present
MapSetKeepFirst(m, k, v) ==
  IF MapHas(m, k) THEN m ELSE Append(m, [k |-> k, v |-> v])

MapSet(m, k, v) ==
  IF MapHas(m, k)
    THEN [i \in 1..Len(m) |-> IF m[i].k = k THEN [k |-> k, v |-> v] ELSE m[i]]
    ELSE Append(m, [k |-> k, v |-> v])

\* delete that empties the map
MapDeleteClear(m, k) == <<>>

\* delete by position that removes the last entry when the key is not found
MapDeleteSpliceLast(m, k) ==
  IF MapHas(m, k)
    THEN SelectSeq(m, LAMBDA en : en.k # k)
    ELSE SubSeq(m, 1, Len(m) - 1)

MapDelete(m, k) == SelectSeq(m, LAMBDA en : en.k # k)

\* Array.from(map.values()): the values in insertion order
MapValues(m) == [i \in 1..Len(m) |-> m[i].v]

\* no array held by a caller; live tells whether the array is the registry's own storage
NoList == [items |-> <<>>, live |-> FALSE]

\* the reference this.handleKeyDown bound once in the constructor
BoundHandleKeyDown == "handleKeyDown"

\* EventTarget.addEventListener: a listener already in the list is not added again
AddEventListener(ls, cb) ==
  IF \E i \in 1..Len(ls) : ls[i] = cb THEN ls ELSE Append(ls, cb)

RemoveEventListener(ls, cb) == SelectSeq(ls, LAMBDA l : l # cb)

\* handleKeyDown whose typing guard forgets text areas
HandleKeyDownNoTextArea(e) ==
  IF e.target.tagName = "INPUT" \/ e.target.isContentEditable
    THEN <<>>
    ELSE LET shortcutKey ==
               getShortcutKey([key |-> e.key, ctrlKey |-> e.ctrlKey, altKey |-> e.altKey,
                               shiftKey |-> e.shiftKey, metaKey |-> e.metaKey])
         IN IF MapHas(shortcuts, shortcutKey)
              THEN <<"preventDefault", "stopPropagation",
                     MapGet(shortcuts, shortcutKey).action>>
              ELSE <<>>

\* handleKeyDown that invokes the action without stopping propagation
HandleKeyDownNoStop(e) ==
  IF e.target.tagName = "INPUT" \/ e.target.tagName = "TEXTAREA"
       \/ e.target.isContentEditable
    THEN <<>>
    ELSE LET shortcutKey ==
               getShortcutKey([key |-> e.key, ctrlKey |-> e.ctrlKey, altKey |-> e.altKey,
                               shiftKey |-> e.shiftKey, metaKey |-> e.metaKey])
         IN IF MapHas(shortcuts, shortcutKey)
              THEN <<"preventDefault", MapGet(shortcuts, shortcutKey).action>>
              ELSE <<>>

\* handleKeyDown that prevents the default before looking the key up
HandleKeyDownEagerPrevent(e) ==
  IF e.target.tagName = "INPUT" \/ e.target.tagName = "TEXTAREA"
       \/ e.target.isContentEditable
    THEN <<>>
    ELSE LET shortcutKey ==
               getShortcutKey([key |-> e.key, ctrlKey |-> e.ctrlKey, altKey |-> e.altKey,
                               shiftKey |-> e.shiftKey, metaKey |-> e.metaKey])
         IN IF MapHas(shortcuts, shortcutKey)
              THEN <<"preventDefault", "stopPropagation",
                     MapGet(shortcuts, shortcutKey).action>>
              ELSE <<"preventDefault">>

\* handleKeyDown: what one invocation of the listener does with event e
HandleKeyDown(e) ==
  IF e.target.tagName = "INPUT" \/ e.target.tagName = "TEXTAREA"
       \/ e.target.isContentEditable
    THEN <<>>
    ELSE LET shortcutKey ==
               getShortcutKey([key |-> e.key, ctrlKey |-> e.ctrlKey, altKey |-> e.altKey,
                               shiftKey |-> e.shiftKey, metaKey |-> e.metaKey])
         IN IF MapHas(shortcuts, shortcutKey)
              THEN <<"preventDefault", "stopPropagation",
                     MapGet(shortcuts, shortcutKey).action>>
              ELSE <<>>

\* handleKeyDown that wraps the action in a try/catch
HandleKeyDownThrowsCaught(e) == FALSE

\* whether the invocation of handleKeyDown with event e ends with an error:
\* the action is the last statement and is not wrapped in a try
HandleKeyDownThrows(e) ==
  /\ HandleKeyDown(e) # <<>>
  /\ HandleKeyDown(e)[Len(HandleKeyDown(e))] \in Throwing

RECURSIVE RunListeners(_, _)
\* the document invokes every attached keydown listener, in attachment order
RunListeners(ls, e) ==
  IF ls = <<>> THEN <<>> ELSE HandleKeyDown(e) \o RunListeners(Tail(ls), e)

-----------------------------------------------------------------------------
(* MainContent: values and initial state *)

\* chat requests issued in one run
MaxRequests == 2

\* capture callbacks pending at one time
MaxPending == 1

\* images kept in the batch queue
MaxBatch == 2

\* MainContent instances created in one run
MaxMounts == 2

Null == "null"

\* the data URLs of a cropped full-tab capture and of a cropped region
TabImage == "data:tab"
RegionImage == "data:region"

\* the crop area of a full-tab capture, which carries the page's title and URL,
\* and the crop area sent by the selection UI
AreaFull == "areaFull"
AreaRegion == "areaRegion"

\* what the user types into the input
TextHi == <<"h", "i">>
TextBlank == <<" ">>
Texts == {<<>>, TextBlank, TextHi}

\* the literal of sendMessage and sendMessageWithImage
DefaultImagePrompt ==
  <<"W", "h", "a", "t", "'", "s", " ", "i", "n", " ", "t", "h", "i", "s", " ",
    "i", "m", "a", "g", "e", "?">>

DefaultBatchPrompt == "Analyze these images and provide insights."

ApiKeyError == "Please set your API key in Settings first"
NoTabError == "No active tab found"
RestrictedError ==
  "Cannot capture screenshots of browser pages. Please navigate to a website first."
DimensionsError == "Could not get tab dimensions"
SecurityError ==
  "Cannot capture screenshots of this page due to security restrictions. Please try a different website."
IncompleteError == "Screenshot data incomplete"
UnknownError == "An unknown error occurred"

\* the messages of the errors the environment raises
LastErrorMessage == "tab closed"
ThrownMessage == "Failed to fetch"
ResponseError == "API error: 401"
CropErrorMessage == "Failed to load image for cropping"

\* showSelectionUI(retryCount = 2)
RetryCount == 2

RECURSIVE TrimStart(_)
TrimStart(s) == IF s # <<>> /\ Head(s) = " " THEN TrimStart(Tail(s)) ELSE s

RECURSIVE TrimEnd(_)
TrimEnd(s) ==
  IF s # <<>> /\ s[Len(s)] = " " THEN TrimEnd(SubSeq(s, 1, Len(s) - 1)) ELSE s

\* String.prototype.trim
Trim(s) == TrimEnd(TrimStart(s))

\* the callbacks a capture waits for, one after the other
Task(stage, retryCount, prompt) == [stage |-> stage, retryCount |-> retryCount, prompt |-> prompt]

DirectQuery == Task("directQuery", 0, FALSE)
DirectScript == Task("directScript", 0, FALSE)
DirectShot == Task("directShot", 0, FALSE)
DirectCrop == Task("directCrop", 0, FALSE)
RegionQuery == Task("regionQuery", 0, FALSE)
RegionScript == Task("regionScript", 0, FALSE)
RegionShot == Task("regionShot", 0, FALSE)
Inject(retryCount) == Task("inject", retryCount, FALSE)
Show(retryCount) == Task("show", retryCount, FALSE)
MessageCrop(prompt) == Task("messageCrop", 0, prompt)

TaskKinds ==
  {DirectQuery, DirectScript, DirectShot, DirectCrop, RegionQuery, RegionScript, RegionShot}
    \cup {Inject(r) : r \in 0..RetryCount} \cup {Show(r) : r \in 0..RetryCount}
    \cup {MessageCrop(p) : p \in BOOLEAN}

RECURSIVE SumOver(_, _)
SumOver(f, S) ==
  IF S = {} THEN 0 ELSE LET x == CHOOSE y \in S : TRUE IN f[x] + SumOver(f, S \ {x})

\* the number of pending callbacks
Pending(t) == SumOver(t, TaskKinds)

\* a callback is scheduled, a callback has run
Schedule(t, k) == [t EXCEPT ![k] = @ + 1]
Finish(t, k) == [t EXCEPT ![k] = @ - 1]

\* what the listener does with a message: whether it calls
\* sendResponse({success: true}), and the value it returns
Responded(success, returned) == [success |-> success, returned |-> returned]

AppInit ==
  /\ response = Responded(FALSE, FALSE)
  /\ instance = 0
  /\ mounted = FALSE
  /\ message = <<>>
  /\ messages = <<>>
  /\ isLoading = FALSE
  /\ errorMessage = ""
  /\ attachedImage = Null
  /\ cropAreaInfo = Null
  /\ batchImages = <<>>
  /\ isBatchMode = FALSE
  /\ apiKey = FALSE
  /\ requests = {}
  /\ issued = 0
  /\ tasks = [k \in TaskKinds |-> 0]

-----------------------------------------------------------------------------
(* Actions *)

Init ==
  /\ shortcuts = <<>>
  /\ isListening = FALSE
  /\ listeners = <<>>
  /\ event = <<>>
  /\ effects = <<>>
  /\ call = [op |-> "new", was |-> FALSE, dom |-> "none", arg |-> <<>>, hit |-> FALSE, rep |-> FALSE]
  /\ thrown = FALSE
  /\ listed = NoList
  /\ delivered = <<>>
  /\ invocations = <<>>
  /\ platform = PlatformWin
  /\ formatted = <<>>
  /\ lastReg = <<>>
  /\ replaced = <<>>
  /\ AppInit

Register(shortcut) ==
  LET key == getShortcutKey(shortcut) IN
  /\ MapHas(shortcuts, key) \/ Len(shortcuts) < MaxBindings
  /\ shortcuts' = MapSet(shortcuts, key, shortcut)
  /\ lastReg' = [x \in DOMAIN lastReg \cup {key} |->
                   IF x = key THEN shortcut.action ELSE lastReg[x]]
  /\ replaced' = IF key \in DOMAIN lastReg /\ lastReg[key] # shortcut.action
                   THEN <<[k |-> key, old |-> lastReg[key]]>>
                   ELSE IF replaced # <<>> /\ replaced[1].k = key THEN <<>> ELSE replaced
  /\ event' = <<>>
  /\ effects' = <<>>
  /\ thrown' = FALSE
  /\ listed' = NoList
  /\ UNCHANGED <<orderVars, formatVars, appVars>>
  /\ call' = [op |-> "register", was |-> isListening, dom |-> "none", arg |-> <<shortcut>>,
              hit |-> MapHas(shortcuts, key),
              rep |-> (call.op = "register" /\ call.arg = <<shortcut>>)]
  /\ UNCHANGED <<isListening, listeners>>

Unregister(shortcut) ==
  LET key == getShortcutKey(shortcut) IN
  /\ shortcuts' = MapDelete(shortcuts, key)
  /\ lastReg' = [x \in DOMAIN lastReg \ {key} |-> lastReg[x]]
  /\ replaced' = IF replaced # <<>> /\ replaced[1].k = key THEN <<>> ELSE replaced
  /\ event' = <<>>
  /\ effects' = <<>>
  /\ thrown' = FALSE
  /\ listed' = NoList
  /\ UNCHANGED <<orderVars, formatVars, appVars>>
  /\ call' = [op |-> "unregister", was |-> isListening, dom |-> "none", arg |-> <<shortcut>>,
              hit |-> MapHas(shortcuts, key), rep |-> FALSE]
  /\ UNCHANGED <<isListening, listeners>>

\* startListening that attaches a freshly bound listener on every call
StartListeningUnguarded ==
  /\ listeners' = Append(listeners, BoundHandleKeyDown)
  /\ isListening' = TRUE
  /\ call' = [op |-> "startListening", was |-> isListening, dom |-> "add",
                       arg |-> <<>>, hit |-> FALSE, rep |-> FALSE]
  /\ event' = <<>>
  /\ effects' = <<>>
  /\ thrown' = FALSE
  /\ listed' = NoList
  /\ UNCHANGED <<orderVars, formatVars, appVars>>
  /\ UNCHANGED <<shortcuts, lastReg, replaced>>

StartListening ==
  /\ IF ~isListening
       THEN /\ listeners' = AddEventListener(listeners, BoundHandleKeyDown)
            /\ isListening' = TRUE
            /\ call' = [op |-> "startListening", was |-> isListening, dom |-> "add",
                       arg |-> <<>>, hit |-> FALSE, rep |-> FALSE]
       ELSE /\ UNCHANGED <<listeners, isListening>>
            /\ call' = [op |-> "startListening", was |-> isListening, dom |-> "none",
                       arg |-> <<>>, hit |-> FALSE, rep |-> FALSE]
  /\ event' = <<>>
  /\ effects' = <<>>
  /\ thrown' = FALSE
  /\ listed' = NoList
  /\ UNCHANGED <<orderVars, formatVars, appVars>>
  /\ UNCHANGED <<shortcuts, lastReg, replaced>>

\* stopListening that clears the flag and leaves the listener attached
StopListeningNoDetach ==
  /\ isListening' = FALSE
  /\ call' = [op |-> "stopListening", was |-> isListening, dom |-> "none",
                       arg |-> <<>>, hit |-> FALSE, rep |-> FALSE]
  /\ event' = <<>>
  /\ effects' = <<>>
  /\ thrown' = FALSE
  /\ listed' = NoList
  /\ UNCHANGED <<orderVars, formatVars, appVars>>
  /\ UNCHANGED <<shortcuts, listeners, lastReg, replaced>>

\* stopListening that detaches and clears the flag whatever the flag is
StopListeningUnguarded ==
  /\ listeners' = RemoveEventListener(listeners, BoundHandleKeyDown)
  /\ isListening' = FALSE
  /\ call' = [op |-> "stopListening", was |-> isListening, dom |-> "remove",
                       arg |-> <<>>, hit |-> FALSE, rep |-> FALSE]
  /\ event' = <<>>
  /\ effects' = <<>>
  /\ thrown' = FALSE
  /\ listed' = NoList
  /\ UNCHANGED <<orderVars, formatVars, appVars>>
  /\ UNCHANGED <<shortcuts, lastReg, replaced>>

\* stopListening that also forgets the bindings
StopListeningClears ==
  /\ IF isListening
       THEN /\ listeners' = RemoveEventListener(listeners, BoundHandleKeyDown)
            /\ isListening' = FALSE
            /\ shortcuts' = <<>>
            /\ call' = [op |-> "stopListening", was |-> isListening, dom |-> "remove",
                       arg |-> <<>>, hit |-> FALSE, rep |-> FALSE]
       ELSE /\ UNCHANGED <<listeners, isListening, shortcuts>>
            /\ call' = [op |-> "stopListening", was |-> isListening, dom |-> "none",
                       arg |-> <<>>, hit |-> FALSE, rep |-> FALSE]
  /\ event' = <<>>
  /\ effects' = <<>>
  /\ thrown' = FALSE
  /\ listed' = NoList
  /\ UNCHANGED <<orderVars, formatVars, appVars>>
  /\ UNCHANGED <<lastReg, replaced>>

StopListening ==
  /\ IF isListening
       THEN /\ listeners' = RemoveEventListener(listeners, BoundHandleKeyDown)
            /\ isListening' = FALSE
            /\ call' = [op |-> "stopListening", was |-> isListening, dom |-> "remove",
                       arg |-> <<>>, hit |-> FALSE, rep |-> FALSE]
       ELSE /\ UNCHANGED <<listeners, isListening>>
            /\ call' = [op |-> "stopListening", was |-> isListening, dom |-> "none",
                       arg |-> <<>>, hit |-> FALSE, rep |-> FALSE]
  /\ event' = <<>>
  /\ effects' = <<>>
  /\ thrown' = FALSE
  /\ listed' = NoList
  /\ UNCHANGED <<orderVars, formatVars, appVars>>
  /\ UNCHANGED <<shortcuts, lastReg, replaced>>

\* getShortcuts that hands out the registry's own storage
GetShortcutsLive ==
  /\ listed' = [items |-> MapValues(shortcuts), live |-> TRUE]
  /\ call' = [op |-> "getShortcuts", was |-> isListening, dom |-> "none",
              arg |-> <<>>, hit |-> FALSE, rep |-> FALSE]
  /\ event' = <<>>
  /\ effects' = <<>>
  /\ thrown' = FALSE
  /\ UNCHANGED <<orderVars, formatVars, appVars>>
  /\ UNCHANGED <<shortcuts, isListening, listeners, lastReg, replaced>>

\* getShortcuts: a new array of the stored bindings
GetShortcuts ==
  /\ listed' = [items |-> MapValues(shortcuts), live |-> FALSE]
  /\ call' = [op |-> "getShortcuts", was |-> isListening, dom |-> "none",
              arg |-> <<>>, hit |-> FALSE, rep |-> FALSE]
  /\ event' = <<>>
  /\ effects' = <<>>
  /\ thrown' = FALSE
  /\ UNCHANGED <<orderVars, formatVars, appVars>>
  /\ UNCHANGED <<shortcuts, isListening, listeners, lastReg, replaced>>

\* the caller removes the last element of the array it got from getShortcuts
ListedPop ==
  /\ listed.items # <<>>
  /\ listed' = [items |-> SubSeq(listed.items, 1, Len(listed.items) - 1),
                live |-> listed.live]
  /\ shortcuts' = IF listed.live THEN SubSeq(shortcuts, 1, Len(shortcuts) - 1) ELSE shortcuts
  /\ call' = [op |-> "listPop", was |-> isListening, dom |-> "none",
              arg |-> <<>>, hit |-> FALSE, rep |-> FALSE]
  /\ event' = <<>>
  /\ effects' = <<>>
  /\ thrown' = FALSE
  /\ UNCHANGED <<orderVars, formatVars, appVars>>
  /\ UNCHANGED <<isListening, listeners, lastReg, replaced>>

\* the host delivers one keydown event to the document
Deliver(e) ==
  /\ event' = <<e>>
  /\ effects' = RunListeners(listeners, e)
  /\ thrown' = (listeners # <<>> /\ HandleKeyDownThrows(e))
  /\ listed' = NoList
  /\ call' = [op |-> "keydown", was |-> isListening, dom |-> "none",
                       arg |-> <<>>, hit |-> FALSE, rep |-> FALSE]
  /\ UNCHANGED <<shortcuts, isListening, listeners, lastReg, replaced>>

KeyDown(e) ==
  /\ Deliver(e)
  /\ UNCHANGED <<orderVars, formatVars, appVars>>

\* a delivery that is also written to the history of deliveries and invocations
KeyDownLogged(e) ==
  /\ Len(delivered) < MaxLog
  /\ Deliver(e)
  /\ delivered' =
       Append(delivered,
              IF isListening /\ ~(e.target.tagName \in {"INPUT", "TEXTAREA"})
                   /\ ~e.target.isContentEditable /\ getShortcutKey(e) \in DOMAIN lastReg
                THEN <<lastReg[getShortcutKey(e)]>>
                ELSE <<>>)
  /\ invocations' = invocations \o SelectSeq(effects', LAMBDA x : x \in Handlers)
  /\ UNCHANGED <<formatVars, appVars>>

Next ==
  \/ \E b \in Bindings : Register(b)
  \/ \E p \in Partials : Unregister(p)
  \/ StartListening
  \/ StopListening
  \/ GetShortcuts
  \/ ListedPop
  \/ \E e \in Events : KeyDown(e)

Spec == Init /\ [][Next]_vars

\* The registry with a few bindings and events, and the history of deliveries kept
OrderBindings ==
  {Binding(KeyLowerS, Ctrl, "H1"), Binding(KeyLowerS, Ctrl, "H2"),
   Binding(KeyLowerS, CtrlShift, "H1")}

OrderPartials == {Binding(KeyUpperS, Ctrl, "")}

OrderEvents ==
  {KeyEvent(KeyLowerS, Ctrl, [tagName |-> "DIV", isContentEditable |-> FALSE]),
   KeyEvent(KeyUpperS, CtrlShift, [tagName |-> "DIV", isContentEditable |-> FALSE]),
   KeyEvent(KeyLowerS, Ctrl, [tagName |-> "TEXTAREA", isContentEditable |-> FALSE]),
   KeyEvent(KeyShift, Ctrl, [tagName |-> "DIV", isContentEditable |-> FALSE])}

OrderNext ==
  \/ \E b \in OrderBindings : Register(b)
  \/ \E p \in OrderPartials : Unregister(p)
  \/ StartListening
  \/ StopListening
  \/ \E e \in OrderEvents : KeyDownLogged(e)

SpecOrder == Init /\ [][OrderNext]_vars

-----------------------------------------------------------------------------
(* formatShortcut *)

\* The glyphs of the source are written by their code points
GlyphCommand == "U+2318"
GlyphOption == "U+2325"
GlyphShift == "U+21E7"
GlyphReturn == "U+21B5"
GlyphUp == "U+2191"
GlyphDown == "U+2193"
GlyphLeft == "U+2190"
GlyphRight == "U+2192"

\* navigator.platform.toUpperCase().indexOf('MAC') >= 0
IsMac(pf) == Contains(ToUpperCase(pf), <<"M", "A", "C">>)

\* the switch on shortcut.key itself, without lowercasing it
KeyNameCaseSensitive(key) ==
  LET raw == Str(key) IN
  CASE raw = "enter" -> GlyphReturn
    [] raw = "escape" -> "Esc"
    [] raw = "arrowup" -> GlyphUp
    [] raw = "arrowdown" -> GlyphDown
    [] raw = "arrowleft" -> GlyphLeft
    [] raw = "arrowright" -> GlyphRight
    [] raw = " " -> "Space"
    [] OTHER -> Str(ToUpperCase(key))

\* the switch on shortcut.key.toLowerCase()
KeyName(key) ==
  LET lower == Str(ToLowerCase(key)) IN
  CASE lower = "enter" -> GlyphReturn
    [] lower = "escape" -> "Esc"
    [] lower = "arrowup" -> GlyphUp
    [] lower = "arrowdown" -> GlyphDown
    [] lower = "arrowleft" -> GlyphLeft
    [] lower = "arrowright" -> GlyphRight
    [] lower = " " -> "Space"
    [] OTHER -> Str(ToUpperCase(key))

\* formatShortcut that pushes 'Meta' on every platform
formatShortcutMetaAlways(shortcut, pf) ==
  LET isMac == IsMac(pf) IN
  Join((IF shortcut.ctrlKey THEN <<IF isMac THEN GlyphCommand ELSE "Ctrl">> ELSE <<>>)
         \o (IF shortcut.altKey THEN <<IF isMac THEN GlyphOption ELSE "Alt">> ELSE <<>>)
         \o (IF shortcut.shiftKey THEN <<IF isMac THEN GlyphShift ELSE "Shift">> ELSE <<>>)
         \o (IF shortcut.metaKey THEN <<"Meta">> ELSE <<>>)
         \o <<KeyName(shortcut.key)>>,
       IF isMac THEN "" ELSE "+")

formatShortcut(shortcut, pf) ==
  LET isMac == IsMac(pf) IN
  Join((IF shortcut.ctrlKey THEN <<IF isMac THEN GlyphCommand ELSE "Ctrl">> ELSE <<>>)
         \o (IF shortcut.altKey THEN <<IF isMac THEN GlyphOption ELSE "Alt">> ELSE <<>>)
         \o (IF shortcut.shiftKey THEN <<IF isMac THEN GlyphShift ELSE "Shift">> ELSE <<>>)
         \o (IF shortcut.metaKey /\ ~isMac THEN <<"Meta">> ELSE <<>>)
         \o <<KeyName(shortcut.key)>>,
       IF isMac THEN "" ELSE "+")

KeyEnter == <<"E", "n", "t", "e", "r">>
KeyEnterUpper == <<"E", "N", "T", "E", "R">>
KeyEscape == <<"E", "s", "c", "a", "p", "e">>
KeyArrowUp == <<"A", "r", "r", "o", "w", "U", "p">>
KeyArrowDown == <<"A", "r", "r", "o", "w", "D", "o", "w", "n">>
KeyArrowLeft == <<"A", "r", "r", "o", "w", "L", "e", "f", "t">>
KeyArrowRight == <<"A", "r", "r", "o", "w", "R", "i", "g", "h", "t">>
KeySpace == <<" ">>
KeySlash == <<"/">>

FormatKeys ==
  {KeyEnter, KeyEnterUpper, KeyEscape, KeyArrowUp, KeyArrowDown, KeyArrowLeft,
   KeyArrowRight, KeySpace, KeySlash, KeyLowerS, KeyUpperS}

AllMods == {Mods(c, a, sh, m) : c \in BOOLEAN, a \in BOOLEAN, sh \in BOOLEAN, m \in BOOLEAN}

FormatInputs == {Binding(key, m, "H1") : key \in FormatKeys, m \in AllMods}

\* a caller formats a shortcut for display
FormatCall(shortcut) ==
  /\ formatted' = <<[shortcut |-> shortcut, out |-> formatShortcut(shortcut, platform)]>>
  /\ UNCHANGED <<shortcuts, isListening, listeners, event, effects, call, listed, thrown,
                 delivered, invocations, platform, lastReg, replaced>>
  /\ UNCHANGED appVars

FormatInit ==
  /\ shortcuts = <<>>
  /\ isListening = FALSE
  /\ listeners = <<>>
  /\ event = <<>>
  /\ effects = <<>>
  /\ call = [op |-> "new", was |-> FALSE, dom |-> "none", arg |-> <<>>, hit |-> FALSE, rep |-> FALSE]
  /\ thrown = FALSE
  /\ listed = NoList
  /\ delivered = <<>>
  /\ invocations = <<>>
  /\ platform \in Platforms
  /\ formatted = <<>>
  /\ lastReg = <<>>
  /\ replaced = <<>>
  /\ AppInit

FormatNext == \E sh \in FormatInputs : FormatCall(sh)

SpecFormat == FormatInit /\ [][FormatNext]_vars

-----------------------------------------------------------------------------
(* MainContent: chat, batch mode and shortcuts *)

\* everything outside the component that its handlers leave alone
outsideVars == <<registryVars, orderVars, formatVars, response, instance>>

\* a content part; a part has either a text or a URL
TextPart(t) == [type |-> "text", text |-> t, url |-> ""]
ImagePart(u) == [type |-> "image_url", text |-> "", url |-> u]

\* a Message whose content is a string, a Message whose content is an array of
\* parts, and the reply to request n
UserText(t, n) == [role |-> "user", array |-> FALSE, text |-> t, parts |-> <<>>, req |-> n]
UserParts(ps, n) == [role |-> "user", array |-> TRUE, text |-> "", parts |-> ps, req |-> n]
Reply(n) == [role |-> "assistant", array |-> FALSE, text |-> "reply", parts |-> <<>>, req |-> n]

\* the page context sendMessageWithImage appends to the prompt when the crop
\* area has a page title, URL, domain or description (line breaks written as spaces)
PageContext(area) ==
  IF area = AreaFull
    THEN " **Page Context:** Page Title: T URL: https://a/ Domain: a"
    ELSE ""

Digits == <<"0", "1", "2", "3", "4", "5", "6", "7", "8", "9">>

\* the decimal form of a number below 10
NumStr(n) == Digits[n + 1]

RECURSIVE BatchContext(_, _)
\* the lines processBatchImages writes for the images from index i on
BatchContext(q, i) ==
  IF i > Len(q) THEN ""
  ELSE " **Image " \o NumStr(i) \o ":**"
         \o (IF q[i].cropArea = AreaFull THEN " Page: T URL: https://a/" ELSE "")
         \o BatchContext(q, i + 1)

\* sendMessageWithImage up to its await; it writes these five variables only
sendMessageWithImage(promptText, imageData) ==
  IF ~apiKey
    THEN /\ errorMessage' = ApiKeyError
         /\ UNCHANGED <<messages, isLoading, requests, issued>>
    ELSE LET prompt == IF Trim(promptText) = <<>> THEN DefaultImagePrompt ELSE promptText
             contextText == Str(prompt) \o (IF cropAreaInfo # Null
                                              THEN PageContext(cropAreaInfo) ELSE "")
         IN /\ issued < MaxRequests
            /\ messages' = Append(messages,
                                  UserParts(<<TextPart(contextText), ImagePart(imageData)>>,
                                            issued + 1))
            /\ isLoading' = TRUE
            /\ errorMessage' = ""
            /\ requests' = requests \cup {issued + 1}
            /\ issued' = issued + 1

\* sendMessage that clears the input when the API key is missing
sendMessageClearsInput ==
  /\ IF Trim(message) # <<>> \/ attachedImage # Null
       THEN IF ~apiKey
              THEN /\ errorMessage' = ApiKeyError
                   /\ message' = <<>>
                   /\ UNCHANGED <<messages, isLoading, attachedImage, cropAreaInfo,
                                  requests, issued>>
              ELSE IF attachedImage # Null /\ cropAreaInfo # Null
                THEN /\ sendMessageWithImage(IF message # <<>> THEN message
                                                               ELSE DefaultImagePrompt,
                                             attachedImage)
                     /\ attachedImage' = Null
                     /\ cropAreaInfo' = Null
                     /\ message' = <<>>
                ELSE /\ issued < MaxRequests
                     /\ messages' = Append(messages, UserText(Str(Trim(message)), issued + 1))
                     /\ message' = <<>>
                     /\ isLoading' = TRUE
                     /\ errorMessage' = ""
                     /\ requests' = requests \cup {issued + 1}
                     /\ issued' = issued + 1
                     /\ UNCHANGED <<attachedImage, cropAreaInfo>>
       ELSE UNCHANGED <<message, messages, isLoading, errorMessage, attachedImage,
                        cropAreaInfo, requests, issued>>
  /\ UNCHANGED <<batchImages, isBatchMode, apiKey, tasks>>

\* sendMessage up to its await
sendMessage ==
  /\ IF Trim(message) # <<>> \/ attachedImage # Null
       THEN IF ~apiKey
              THEN /\ errorMessage' = ApiKeyError
                   /\ UNCHANGED <<message, messages, isLoading, attachedImage, cropAreaInfo,
                                  requests, issued>>
              ELSE IF attachedImage # Null /\ cropAreaInfo # Null
                THEN /\ sendMessageWithImage(IF message # <<>> THEN message
                                                               ELSE DefaultImagePrompt,
                                             attachedImage)
                     /\ attachedImage' = Null
                     /\ cropAreaInfo' = Null
                     /\ message' = <<>>
                ELSE /\ issued < MaxRequests
                     /\ messages' = Append(messages, UserText(Str(Trim(message)), issued + 1))
                     /\ message' = <<>>
                     /\ isLoading' = TRUE
                     /\ errorMessage' = ""
                     /\ requests' = requests \cup {issued + 1}
                     /\ issued' = issued + 1
                     /\ UNCHANGED <<attachedImage, cropAreaInfo>>
       ELSE UNCHANGED <<message, messages, isLoading, errorMessage, attachedImage,
                        cropAreaInfo, requests, issued>>
  /\ UNCHANGED <<batchImages, isBatchMode, apiKey, tasks>>

\* startNewChat that leaves the crop area behind
startNewChatKeepsCropArea ==
  /\ messages' = <<>>
  /\ errorMessage' = ""
  /\ attachedImage' = Null
  /\ UNCHANGED <<message, isLoading, cropAreaInfo, batchImages, isBatchMode, apiKey, requests,
                 issued, tasks>>

startNewChat ==
  /\ messages' = <<>>
  /\ errorMessage' = ""
  /\ attachedImage' = Null
  /\ cropAreaInfo' = Null
  /\ UNCHANGED <<message, isLoading, batchImages, isBatchMode, apiKey, requests, issued,
                 tasks>>

removeAttachedImage ==
  /\ attachedImage' = Null
  /\ cropAreaInfo' = Null
  /\ UNCHANGED <<message, messages, isLoading, errorMessage, batchImages, isBatchMode,
                 apiKey, requests, issued, tasks>>

\* toggleBatchMode that keeps the queue when batch mode goes off
toggleBatchModeKeepsQueue ==
  /\ isBatchMode' = ~isBatchMode
  /\ UNCHANGED batchImages
  /\ UNCHANGED <<message, messages, isLoading, errorMessage, attachedImage, cropAreaInfo,
                 apiKey, requests, issued, tasks>>

toggleBatchMode ==
  /\ isBatchMode' = ~isBatchMode
  /\ batchImages' = IF ~isBatchMode' THEN <<>> ELSE batchImages
  /\ UNCHANGED <<message, messages, isLoading, errorMessage, attachedImage, cropAreaInfo,
                 apiKey, requests, issued, tasks>>

\* the queue after addToBatch; the generated ids are taken to be distinct
addToBatch(imageData, cropArea) ==
  Append(batchImages, [imageData |-> imageData, cropArea |-> cropArea])

\* removeBatchImage with the id of the i-th image of the queue
removeBatchImage(i) ==
  /\ batchImages' = [j \in 1..(Len(batchImages) - 1) |->
                       IF j < i THEN batchImages[j] ELSE batchImages[j + 1]]
  /\ UNCHANGED <<message, messages, isLoading, errorMessage, attachedImage, cropAreaInfo,
                 isBatchMode, apiKey, requests, issued, tasks>>

\* processBatchImages that sends the newest image only
processBatchImagesLastOnly ==
  /\ IF batchImages = <<>>
       THEN UNCHANGED <<message, messages, isLoading, errorMessage, batchImages, isBatchMode,
                        requests, issued>>
       ELSE IF ~apiKey
         THEN /\ errorMessage' = ApiKeyError
              /\ UNCHANGED <<message, messages, isLoading, batchImages, isBatchMode,
                             requests, issued>>
         ELSE LET promptText == IF Trim(message) # <<>> THEN Str(Trim(message))
                                                        ELSE DefaultBatchPrompt
                  contextText == promptText \o " **Batch Analysis of "
                                   \o NumStr(Len(batchImages)) \o " Images:**"
                                   \o BatchContext(batchImages, 1)
                  contentParts == <<TextPart(contextText),
                                    ImagePart(batchImages[Len(batchImages)].imageData)>>
              IN /\ issued < MaxRequests
                 /\ messages' = Append(messages, UserParts(contentParts, issued + 1))
                 /\ message' = <<>>
                 /\ isLoading' = TRUE
                 /\ errorMessage' = ""
                 /\ batchImages' = <<>>
                 /\ isBatchMode' = FALSE
                 /\ requests' = requests \cup {issued + 1}
                 /\ issued' = issued + 1
  /\ UNCHANGED <<attachedImage, cropAreaInfo, apiKey, tasks>>

\* processBatchImages up to its await
processBatchImages ==
  /\ IF batchImages = <<>>
       THEN UNCHANGED <<message, messages, isLoading, errorMessage, batchImages, isBatchMode,
                        requests, issued>>
       ELSE IF ~apiKey
         THEN /\ errorMessage' = ApiKeyError
              /\ UNCHANGED <<message, messages, isLoading, batchImages, isBatchMode,
                             requests, issued>>
         ELSE LET promptText == IF Trim(message) # <<>> THEN Str(Trim(message))
                                                        ELSE DefaultBatchPrompt
                  contextText == promptText \o " **Batch Analysis of "
                                   \o NumStr(Len(batchImages)) \o " Images:**"
                                   \o BatchContext(batchImages, 1)
                  contentParts == <<TextPart(contextText)>>
                                    \o [i \in 1..Len(batchImages) |->
                                          ImagePart(batchImages[i].imageData)]
              IN /\ issued < MaxRequests
                 /\ messages' = Append(messages, UserParts(contentParts, issued + 1))
                 /\ message' = <<>>
                 /\ isLoading' = TRUE
                 /\ errorMessage' = ""
                 /\ batchImages' = <<>>
                 /\ isBatchMode' = FALSE
                 /\ requests' = requests \cup {issued + 1}
                 /\ issued' = issued + 1
  /\ UNCHANGED <<attachedImage, cropAreaInfo, apiKey, tasks>>

\* what sendChatRequest gives back: a response with content, a response with an
\* error, a thrown Error, a thrown value that is no Error
Outcomes == {"content", "error", "throwError", "throwOther"}

\* the rest of sendMessage, sendMessageWithImage or processBatchImages once the
\* awaited request n completes
RequestDone(n, outcome) ==
  /\ n \in requests
  /\ requests' = requests \ {n}
  /\ CASE outcome = "content" ->
            /\ messages' = Append(messages, Reply(n))
            /\ UNCHANGED errorMessage
       [] outcome = "error" ->
            /\ errorMessage' = ResponseError
            /\ UNCHANGED messages
       [] outcome = "throwError" ->
            /\ errorMessage' = ThrownMessage
            /\ UNCHANGED messages
       [] outcome = "throwOther" ->
            /\ errorMessage' = UnknownError
            /\ UNCHANGED messages
  /\ isLoading' = FALSE
  /\ UNCHANGED <<mounted, message, attachedImage, cropAreaInfo, batchImages, isBatchMode,
                 apiKey, issued, tasks>>
  /\ UNCHANGED outsideVars

-----------------------------------------------------------------------------
(* MainContent: screenshot captures *)

UrlHttps == <<"h", "t", "t", "p", "s", ":", "/", "/", "a", "/">>
UrlChrome == <<"c", "h", "r", "o", "m", "e", ":", "/", "/", "x">>
UrlEdge == <<"e", "d", "g", "e", ":", "/", "/", "x">>
UrlBrave == <<"b", "r", "a", "v", "e", ":", "/", "/", "x">>
UrlAbout == <<"a", "b", "o", "u", "t", ":", "b", "l", "a", "n", "k">>
UrlExtension ==
  <<"c", "h", "r", "o", "m", "e", "-", "e", "x", "t", "e", "n", "s", "i", "o", "n",
    ":", "/", "/", "x">>
UrlFile == <<"f", "i", "l", "e", ":", "/", "/", "/", "x">>

\* what chrome.tabs.query hands to its callback: no tab, or the active tab
TabLists ==
  {<<>>} \cup {<<[url |-> u]>> : u \in {UrlHttps, UrlChrome, UrlEdge, UrlBrave, UrlAbout,
                                         UrlExtension, UrlFile}}

\* String.prototype.startsWith
StartsWith(s, prefix) == Len(s) >= Len(prefix) /\ SubSeq(s, 1, Len(prefix)) = prefix

\* the test that forgets about: pages
IsRestrictedNoAbout(url) ==
  \/ StartsWith(url, <<"c", "h", "r", "o", "m", "e", ":", "/", "/">>)
  \/ StartsWith(url, <<"e", "d", "g", "e", ":", "/", "/">>)
  \/ StartsWith(url, <<"b", "r", "a", "v", "e", ":", "/", "/">>)
  \/ StartsWith(url, <<"c", "h", "r", "o", "m", "e", "-", "e", "x", "t", "e", "n", "s",
                       "i", "o", "n", ":", "/", "/">>)

\* the test of the active tab's URL against the browser's own pages
IsRestricted(url) ==
  \/ StartsWith(url, <<"c", "h", "r", "o", "m", "e", ":", "/", "/">>)
  \/ StartsWith(url, <<"e", "d", "g", "e", ":", "/", "/">>)
  \/ StartsWith(url, <<"b", "r", "a", "v", "e", ":", "/", "/">>)
  \/ StartsWith(url, <<"a", "b", "o", "u", "t", ":">>)
  \/ StartsWith(url, <<"c", "h", "r", "o", "m", "e", "-", "e", "x", "t", "e", "n", "s",
                       "i", "o", "n", ":", "/", "/">>)

\* directCaptureScreenshot: it asks for the active tab
directCaptureScreenshot ==
  /\ Pending(tasks) < MaxPending
  /\ tasks' = Schedule(tasks, DirectQuery)
  /\ UNCHANGED <<message, messages, isLoading, errorMessage, attachedImage, cropAreaInfo,
                 batchImages, isBatchMode, apiKey, requests, issued>>

\* captureSelectedRegion: it asks for the active tab
captureSelectedRegion ==
  /\ Pending(tasks) < MaxPending
  /\ tasks' = Schedule(tasks, RegionQuery)
  /\ UNCHANGED <<message, messages, isLoading, errorMessage, attachedImage, cropAreaInfo,
                 batchImages, isBatchMode, apiKey, requests, issued>>

\* a callback that writes nothing but the error message and the pending callbacks
CaptureFrame ==
  /\ UNCHANGED <<mounted, message, messages, isLoading, attachedImage, cropAreaInfo,
                 batchImages, isBatchMode, apiKey, requests, issued>>
  /\ UNCHANGED outsideVars

\* the callback of chrome.tabs.query, of either capture function: query is
\* DirectQuery or RegionQuery and script the task of the executeScript call
QueryDone(query, script, tabs) ==
  /\ tasks[query] > 0
  /\ IF tabs = <<>>
       THEN /\ errorMessage' = NoTabError
            /\ tasks' = Finish(tasks, query)
       ELSE IF IsRestricted(tabs[1].url)
         THEN /\ errorMessage' = RestrictedError
              /\ tasks' = Finish(tasks, query)
         ELSE /\ tasks' = Schedule(Finish(tasks, query), script)
              /\ UNCHANGED errorMessage
  /\ CaptureFrame

\* what the awaited executeScript of directCaptureScreenshot gives
ScriptOutcomes == {"results", "empty", "throwAccess", "throwError"}

\* directCaptureScreenshot after its executeScript call
DirectScriptDone(outcome) ==
  /\ tasks[DirectScript] > 0
  /\ CASE outcome = "results" ->
            /\ tasks' = Schedule(Finish(tasks, DirectScript), DirectShot)
            /\ UNCHANGED errorMessage
       [] outcome = "empty" ->
            /\ errorMessage' = DimensionsError
            /\ tasks' = Finish(tasks, DirectScript)
       [] outcome = "throwAccess" ->
            /\ errorMessage' = SecurityError
            /\ tasks' = Finish(tasks, DirectScript)
       [] outcome = "throwError" ->
            /\ errorMessage' = "Screenshot error: " \o ThrownMessage
            /\ tasks' = Finish(tasks, DirectScript)
  /\ CaptureFrame

\* the callback of captureVisibleTab in directCaptureScreenshot: lastError
\* tells whether chrome.runtime.lastError is set
DirectShotDone(lastError) ==
  /\ tasks[DirectShot] > 0
  /\ IF lastError
       THEN /\ errorMessage' = "Screenshot error: " \o LastErrorMessage
            /\ tasks' = Finish(tasks, DirectShot)
       ELSE /\ tasks' = Schedule(Finish(tasks, DirectShot), DirectCrop)
            /\ UNCHANGED errorMessage
  /\ CaptureFrame

\* the cropped image of a full-tab capture that is attached whatever the mode
DirectCropDoneAlwaysAttaches(croppedImage) ==
  /\ tasks[DirectCrop] > 0
  /\ tasks' = Finish(tasks, DirectCrop)
  /\ attachedImage' = croppedImage
  /\ cropAreaInfo' = AreaFull
  /\ UNCHANGED batchImages
  /\ UNCHANGED <<mounted, message, messages, isLoading, errorMessage, isBatchMode, apiKey,
                 requests, issued>>
  /\ UNCHANGED outsideVars

\* cropImage of directCaptureScreenshot resolves with croppedImage
DirectCropDone(croppedImage) ==
  /\ tasks[DirectCrop] > 0
  /\ tasks' = Finish(tasks, DirectCrop)
  /\ IF isBatchMode
       THEN /\ Len(batchImages) < MaxBatch
            /\ batchImages' = addToBatch(croppedImage, AreaFull)
            /\ UNCHANGED <<attachedImage, cropAreaInfo>>
       ELSE /\ attachedImage' = croppedImage
            /\ cropAreaInfo' = AreaFull
            /\ UNCHANGED batchImages
  /\ UNCHANGED <<mounted, message, messages, isLoading, errorMessage, isBatchMode, apiKey,
                 requests, issued>>
  /\ UNCHANGED outsideVars

\* cropImage rejects: crop is DirectCrop or the task of a message's crop
CropFailed(crop) ==
  /\ tasks[crop] > 0
  /\ tasks' = Finish(tasks, crop)
  /\ errorMessage' = "Screenshot processing error: " \o CropErrorMessage
  /\ CaptureFrame

\* captureSelectedRegion after its executeScript call
RegionScriptDone(throws) ==
  /\ tasks[RegionScript] > 0
  /\ IF throws
       THEN /\ errorMessage' = "Region selection error: " \o ThrownMessage
            /\ tasks' = Finish(tasks, RegionScript)
       ELSE /\ tasks' = Schedule(Finish(tasks, RegionScript), RegionShot)
            /\ UNCHANGED errorMessage
  /\ CaptureFrame

\* the callback of captureVisibleTab in captureSelectedRegion; it calls
\* showSelectionUI(), which injects the content script
RegionShotDone(lastError) ==
  /\ tasks[RegionShot] > 0
  /\ IF lastError
       THEN /\ errorMessage' = "Screenshot error: " \o LastErrorMessage
            /\ tasks' = Finish(tasks, RegionShot)
       ELSE /\ tasks' = Schedule(Finish(tasks, RegionShot), Inject(RetryCount))
            /\ UNCHANGED errorMessage
  /\ CaptureFrame

\* the injection fails and showSelectionUI starts over with a fresh retry count
\* when no retry is left
InjectDoneStartsOver(retryCount, ok) ==
  /\ tasks[Inject(retryCount)] > 0
  /\ IF ok
       THEN /\ tasks' = Schedule(Finish(tasks, Inject(retryCount)), Show(retryCount))
            /\ UNCHANGED errorMessage
       ELSE IF retryCount > 0
         THEN /\ tasks' = Schedule(Finish(tasks, Inject(retryCount)), Inject(retryCount - 1))
              /\ UNCHANGED errorMessage
         ELSE /\ tasks' = Schedule(Finish(tasks, Inject(retryCount)), Inject(RetryCount))
              /\ UNCHANGED errorMessage
  /\ UNCHANGED <<mounted, message, messages, isLoading, attachedImage, cropAreaInfo,
                 batchImages, isBatchMode, apiKey, requests, issued>>
  /\ UNCHANGED outsideVars

\* showSelectionUI(retryCount): the injection of the content script settles. On
\* success the message to the tab is sent 300 ms later; on failure the next
\* attempt starts 500 ms later, if any is left
InjectDone(retryCount, ok) ==
  /\ tasks[Inject(retryCount)] > 0
  /\ IF ok
       THEN /\ tasks' = Schedule(Finish(tasks, Inject(retryCount)), Show(retryCount))
            /\ UNCHANGED errorMessage
       ELSE IF retryCount > 0
         THEN /\ tasks' = Schedule(Finish(tasks, Inject(retryCount)), Inject(retryCount - 1))
              /\ UNCHANGED errorMessage
         ELSE /\ errorMessage' = "Region selection failed: " \o ThrownMessage
              /\ tasks' = Finish(tasks, Inject(retryCount))
  /\ UNCHANGED <<mounted, message, messages, isLoading, attachedImage, cropAreaInfo,
                 batchImages, isBatchMode, apiKey, requests, issued>>
  /\ UNCHANGED outsideVars

\* what the callback of chrome.tabs.sendMessage sees: a response that says
\* success, lastError set, or a response that is missing or says no success
ShowOutcomes == {"success", "lastError", "noSuccess"}

\* showSelectionUI(retryCount): the tab answers the showSelectionUIWithScreenshot message
ShowDone(retryCount, outcome) ==
  /\ tasks[Show(retryCount)] > 0
  /\ IF outcome = "success"
       THEN /\ tasks' = Finish(tasks, Show(retryCount))
            /\ UNCHANGED errorMessage
       ELSE IF retryCount > 0
         THEN /\ tasks' = Schedule(Finish(tasks, Show(retryCount)), Inject(retryCount - 1))
              /\ UNCHANGED errorMessage
         ELSE /\ errorMessage' = "Region selection failed: "
                                   \o (IF outcome = "lastError" THEN LastErrorMessage
                                         ELSE "Failed to show selection UI")
              /\ tasks' = Finish(tasks, Show(retryCount))
  /\ UNCHANGED <<mounted, message, messages, isLoading, attachedImage, cropAreaInfo,
                 batchImages, isBatchMode, apiKey, requests, issued>>
  /\ UNCHANGED outsideVars

\* the prompt a screenshotCaptured message may carry
PromptText == TextHi

\* the messages the runtime delivers to the listener
RuntimeMessages ==
  {[action |-> "screenshotCaptured", imageData |-> i, cropArea |-> c, prompt |-> p] :
     i \in BOOLEAN, c \in BOOLEAN, p \in BOOLEAN}
    \cup {[action |-> "settingsChanged", imageData |-> FALSE, cropArea |-> FALSE,
           prompt |-> FALSE]}

\* the listener that answers only the messages it can process
OnMessageAnswersComplete(msgEvent) ==
  /\ mounted
  /\ IF msgEvent.action = "screenshotCaptured"
       THEN IF msgEvent.imageData /\ msgEvent.cropArea
              THEN /\ Pending(tasks) < MaxPending
                   /\ tasks' = Schedule(tasks, MessageCrop(msgEvent.prompt))
                   /\ UNCHANGED errorMessage
              ELSE /\ errorMessage' = IncompleteError
                   /\ UNCHANGED tasks
       ELSE UNCHANGED <<tasks, errorMessage>>
  /\ response' = IF msgEvent.action = "screenshotCaptured" /\ msgEvent.imageData
                        /\ msgEvent.cropArea
                   THEN Responded(TRUE, TRUE) ELSE Responded(FALSE, FALSE)
  /\ UNCHANGED <<mounted, message, messages, isLoading, attachedImage, cropAreaInfo,
                 batchImages, isBatchMode, apiKey, requests, issued>>
  /\ UNCHANGED <<registryVars, orderVars, formatVars, instance>>

\* the messages the selection UI sends when a region was chosen
ScreenshotMessages == {msgEvent \in RuntimeMessages : msgEvent.action = "screenshotCaptured"}

\* the chrome.runtime.onMessage listener of the mounted component
OnMessage(msgEvent) ==
  /\ mounted
  /\ IF msgEvent.action = "screenshotCaptured"
       THEN IF msgEvent.imageData /\ msgEvent.cropArea
              THEN /\ Pending(tasks) < MaxPending
                   /\ tasks' = Schedule(tasks, MessageCrop(msgEvent.prompt))
                   /\ UNCHANGED errorMessage
              ELSE /\ errorMessage' = IncompleteError
                   /\ UNCHANGED tasks
       ELSE UNCHANGED <<tasks, errorMessage>>
  /\ response' = IF msgEvent.action = "screenshotCaptured"
                   THEN Responded(TRUE, TRUE) ELSE Responded(FALSE, FALSE)
  /\ UNCHANGED <<mounted, message, messages, isLoading, attachedImage, cropAreaInfo,
                 batchImages, isBatchMode, apiKey, requests, issued>>
  /\ UNCHANGED <<registryVars, orderVars, formatVars, instance>>

\* cropImage of the listener resolves with croppedImage; prompt tells whether
\* the message carried one
MessageCropDone(prompt, croppedImage) ==
  /\ tasks[MessageCrop(prompt)] > 0
  /\ tasks' = Finish(tasks, MessageCrop(prompt))
  /\ IF isBatchMode
       THEN /\ Len(batchImages) < MaxBatch
            /\ batchImages' = addToBatch(croppedImage, AreaRegion)
            /\ UNCHANGED <<attachedImage, cropAreaInfo>>
       ELSE /\ attachedImage' = croppedImage
            /\ cropAreaInfo' = AreaRegion
            /\ UNCHANGED batchImages
  /\ message' = IF prompt THEN PromptText ELSE message
  /\ UNCHANGED <<mounted, messages, isLoading, errorMessage, isBatchMode, apiKey,
                 requests, issued>>
  /\ UNCHANGED outsideVars

-----------------------------------------------------------------------------
(* MainContent: mounting, user input and the specification *)

KeyLowerN == <<"n">>
KeyLowerB == <<"b">>
NoMods == Mods(FALSE, FALSE, FALSE, FALSE)

\* the array with the batch toggle on Ctrl+S, the combination of the screenshot
SetupShortcutsBatchOnCtrlS ==
  <<Binding(KeyLowerS, Ctrl, "TAKE_SCREENSHOT"),
    Binding(KeyLowerS, CtrlShift, "SELECT_REGION"),
    Binding(KeyLowerN, Ctrl, "NEW_CHAT"),
    Binding(KeySlash, NoMods, "FOCUS_INPUT"),
    Binding(KeyEscape, NoMods, "ESCAPE"),
    Binding(KeyLowerS, Ctrl, "TOGGLE_BATCH")>>

\* the array setupKeyboardShortcuts registers, each action by its name
SetupShortcuts ==
  <<Binding(KeyLowerS, Ctrl, "TAKE_SCREENSHOT"),
    Binding(KeyLowerS, CtrlShift, "SELECT_REGION"),
    Binding(KeyLowerN, Ctrl, "NEW_CHAT"),
    Binding(KeySlash, NoMods, "FOCUS_INPUT"),
    Binding(KeyEscape, NoMods, "ESCAPE"),
    Binding(KeyLowerB, Ctrl, "TOGGLE_BATCH")>>

ActionNames == {SetupShortcuts[i].action : i \in 1..Len(SetupShortcuts)}

RECURSIVE RegisterAll(_, _)
\* shortcuts.forEach(shortcut => keyboardShortcuts.register(shortcut))
RegisterAll(m, list) ==
  IF list = <<>> THEN m
  ELSE RegisterAll(MapSet(m, getShortcutKey(Head(list)), Head(list)), Tail(list))

\* a shortcut whose action is a closure over the state of instance i
Owned(shortcut, i) ==
  [key |-> shortcut.key, ctrlKey |-> shortcut.ctrlKey, altKey |-> shortcut.altKey,
   shiftKey |-> shortcut.shiftKey, metaKey |-> shortcut.metaKey,
   action |-> shortcut.action, owner |-> i]

\* onMount of a new instance: setupKeyboardShortcuts registers the six shortcuts
\* on the global registry and starts listening
Mount ==
  /\ ~mounted
  /\ instance < MaxMounts
  /\ instance' = instance + 1
  /\ mounted' = TRUE
  /\ shortcuts' = RegisterAll(shortcuts, [k \in 1..Len(SetupShortcuts) |->
                                           Owned(SetupShortcuts[k], instance + 1)])
  /\ IF ~isListening
       THEN /\ listeners' = AddEventListener(listeners, BoundHandleKeyDown)
            /\ isListening' = TRUE
       ELSE UNCHANGED <<listeners, isListening>>
  /\ UNCHANGED <<event, effects, call, listed, thrown, lastReg, replaced>>
  /\ UNCHANGED <<message, messages, isLoading, errorMessage, attachedImage, cropAreaInfo,
                 batchImages, isBatchMode, apiKey, requests, issued, tasks, response>>
  /\ UNCHANGED <<orderVars, formatVars>>

\* the action of each registered shortcut
RunShortcut(name) ==
  CASE name = "TAKE_SCREENSHOT" ->
         IF ~isLoading /\ attachedImage = Null
           THEN directCaptureScreenshot
           ELSE UNCHANGED <<message, messages, isLoading, errorMessage, attachedImage,
                            cropAreaInfo, batchImages, isBatchMode, apiKey, requests, issued,
                            tasks>>
    [] name = "SELECT_REGION" ->
         IF ~isLoading /\ attachedImage = Null
           THEN captureSelectedRegion
           ELSE UNCHANGED <<message, messages, isLoading, errorMessage, attachedImage,
                            cropAreaInfo, batchImages, isBatchMode, apiKey, requests, issued,
                            tasks>>
    [] name = "NEW_CHAT" -> startNewChat
    [] name = "FOCUS_INPUT" ->
         UNCHANGED <<message, messages, isLoading, errorMessage, attachedImage,
                     cropAreaInfo, batchImages, isBatchMode, apiKey, requests, issued,
                     tasks>>
    [] name = "ESCAPE" ->
         IF attachedImage # Null THEN removeAttachedImage
         ELSE IF isBatchMode THEN toggleBatchMode
         ELSE UNCHANGED <<message, messages, isLoading, errorMessage, attachedImage,
                          cropAreaInfo, batchImages, isBatchMode, apiKey, requests, issued,
                          tasks>>
    [] name = "TOGGLE_BATCH" -> toggleBatchMode

Page == [tagName |-> "DIV", isContentEditable |-> FALSE]
Input == [tagName |-> "INPUT", isContentEditable |-> FALSE]

\* the actions the registry invokes when the document gets event e
Dispatched(e) == SelectSeq(RunListeners(listeners, e), LAMBDA x : x \in ActionNames)

\* the instance whose action the registry holds for event e
OwnerOf(e) ==
  MapGet(shortcuts, getShortcutKey([key |-> e.key, ctrlKey |-> e.ctrlKey,
                                    altKey |-> e.altKey, shiftKey |-> e.shiftKey,
                                    metaKey |-> e.metaKey])).owner

\* onDestroy that leaves the registry listening
DestroyKeepsListening ==
  /\ mounted
  /\ mounted' = FALSE
  /\ message' = <<>>
  /\ messages' = <<>>
  /\ isLoading' = FALSE
  /\ errorMessage' = ""
  /\ attachedImage' = Null
  /\ cropAreaInfo' = Null
  /\ batchImages' = <<>>
  /\ isBatchMode' = FALSE
  /\ requests' = {}
  /\ tasks' = [k \in TaskKinds |-> 0]
  /\ UNCHANGED <<listeners, isListening>>
  /\ UNCHANGED <<shortcuts, event, effects, call, listed, thrown, lastReg, replaced>>
  /\ UNCHANGED <<apiKey, issued, response, instance>>
  /\ UNCHANGED <<orderVars, formatVars>>

\* onDestroy: keyboardShortcuts.stopListening(); the bindings stay in the
\* registry. The instance is gone with its state, and what its pending
\* requests and callbacks still write is seen by nobody
Destroy ==
  /\ mounted
  /\ mounted' = FALSE
  /\ message' = <<>>
  /\ messages' = <<>>
  /\ isLoading' = FALSE
  /\ errorMessage' = ""
  /\ attachedImage' = Null
  /\ cropAreaInfo' = Null
  /\ batchImages' = <<>>
  /\ isBatchMode' = FALSE
  /\ requests' = {}
  /\ tasks' = [k \in TaskKinds |-> 0]
  /\ IF isListening
       THEN /\ listeners' = RemoveEventListener(listeners, BoundHandleKeyDown)
            /\ isListening' = FALSE
       ELSE UNCHANGED <<listeners, isListening>>
  /\ UNCHANGED <<shortcuts, event, effects, call, listed, thrown, lastReg, replaced>>
  /\ UNCHANGED <<apiKey, issued, response, instance>>
  /\ UNCHANGED <<orderVars, formatVars>>

\* the host delivers a keydown event to the document; an action invoked for
\* an instance that is gone changes nothing that is seen
AppKeyDown(e) ==
  /\ IF Dispatched(e) # <<>> /\ mounted /\ OwnerOf(e) = instance
       THEN RunShortcut(Dispatched(e)[1])
       ELSE UNCHANGED <<message, messages, isLoading, errorMessage, attachedImage,
                        cropAreaInfo, batchImages, isBatchMode, apiKey, requests, issued,
                        tasks>>
  /\ UNCHANGED <<mounted, outsideVars>>

\* the user edits the input, which is disabled while a request is loading
TypeText(t) ==
  /\ mounted
  /\ ~isLoading
  /\ message' = t
  /\ UNCHANGED <<mounted, messages, isLoading, errorMessage, attachedImage, cropAreaInfo,
                 batchImages, isBatchMode, apiKey, requests, issued, tasks>>
  /\ UNCHANGED outsideVars

\* Enter in the input (handleKeyDown of the component), disabled while loading
PressEnter ==
  /\ mounted
  /\ ~isLoading
  /\ sendMessage
  /\ UNCHANGED <<mounted, outsideVars>>

\* the send button that stays enabled while a request is loading
ClickSendWhileLoading ==
  /\ mounted
  /\ ~(Trim(message) = <<>> /\ attachedImage = Null /\ batchImages = <<>>)
  /\ IF isBatchMode /\ batchImages # <<>> THEN processBatchImages ELSE sendMessage
  /\ UNCHANGED <<mounted, outsideVars>>

\* the send button
ClickSend ==
  /\ mounted
  /\ ~((Trim(message) = <<>> /\ attachedImage = Null /\ batchImages = <<>>) \/ isLoading)
  /\ IF isBatchMode /\ batchImages # <<>> THEN processBatchImages ELSE sendMessage
  /\ UNCHANGED <<mounted, outsideVars>>

\* the Analyze Batch button
ClickAnalyzeBatch ==
  /\ mounted
  /\ isBatchMode /\ batchImages # <<>>
  /\ ~isLoading
  /\ processBatchImages
  /\ UNCHANGED <<mounted, outsideVars>>

\* the New Chat button
ClickNewChat ==
  /\ mounted
  /\ startNewChat
  /\ UNCHANGED <<mounted, outsideVars>>

\* the Batch Mode button
ClickBatchMode ==
  /\ mounted
  /\ toggleBatchMode
  /\ UNCHANGED <<mounted, outsideVars>>

\* the remove button of the attached image
ClickRemoveAttachedImage ==
  /\ mounted
  /\ attachedImage # Null
  /\ removeAttachedImage
  /\ UNCHANGED <<mounted, outsideVars>>

\* the remove button of the i-th image of the batch preview
ClickRemoveBatchImage(i) ==
  /\ mounted
  /\ isBatchMode /\ i \in 1..Len(batchImages)
  /\ removeBatchImage(i)
  /\ UNCHANGED <<mounted, outsideVars>>

\* the screenshot button
ClickScreenshot ==
  /\ mounted
  /\ ~(isLoading \/ attachedImage # Null)
  /\ directCaptureScreenshot
  /\ UNCHANGED <<mounted, outsideVars>>

\* the region selection button
ClickSelectRegion ==
  /\ mounted
  /\ ~(isLoading \/ attachedImage # Null)
  /\ captureSelectedRegion
  /\ UNCHANGED <<mounted, outsideVars>>

\* the user saves or clears the API key in the settings
SetApiKey(k) ==
  /\ apiKey' = k
  /\ UNCHANGED <<mounted, message, messages, isLoading, errorMessage, attachedImage,
                 cropAreaInfo, batchImages, isBatchMode, requests, issued, tasks>>
  /\ UNCHANGED outsideVars

\* no capture is under way
Idle == Pending(tasks) = 0

\* no request has been issued yet
FirstRequest == issued = 0

\* A chat session: the user types, sends text, images and batches, starts new
\* chats and uses the shortcuts; full-tab captures go well and are taken one
\* at a time, and a batch holds one image
ChatEvents ==
  {KeyEvent(KeyLowerS, Ctrl, Page), KeyEvent(KeyLowerN, Ctrl, Page),
   KeyEvent(KeySlash, NoMods, Page), KeyEvent(KeyEscape, NoMods, Page),
   KeyEvent(KeyLowerB, Ctrl, Page), KeyEvent(KeyEscape, NoMods, Input)}

ChatNext ==
  \/ Mount
  \/ \E e \in ChatEvents : Idle /\ AppKeyDown(e)
  \/ \E t \in Texts : TypeText(t)
  \/ PressEnter
  \/ ClickSend
  \/ ClickAnalyzeBatch
  \/ ClickNewChat
  \/ ClickBatchMode
  \/ ClickRemoveAttachedImage
  \/ Idle /\ ClickScreenshot
  \/ \E k \in BOOLEAN : SetApiKey(k)
  \/ \E n \in 1..MaxRequests, outcome \in Outcomes : RequestDone(n, outcome)
  \/ QueryDone(DirectQuery, DirectScript, <<[url |-> UrlHttps]>>)
  \/ DirectScriptDone("results")
  \/ DirectShotDone(FALSE)
  \/ batchImages = <<>> /\ DirectCropDone(TabImage)

SpecChat == Init /\ [][ChatNext]_vars

\* A capture session: full-tab captures and screenshots sent by the selection
\* UI, in single and in batch mode, with one message sent at most
CaptureEvents ==
  {KeyEvent(KeyLowerS, Ctrl, Page), KeyEvent(KeyLowerN, Ctrl, Page),
   KeyEvent(KeyEscape, NoMods, Page), KeyEvent(KeyLowerB, Ctrl, Page)}

CaptureNext ==
  \/ Mount
  \/ \E e \in CaptureEvents : AppKeyDown(e)
  \/ \E t \in {<<>>, TextHi} : TypeText(t)
  \/ FirstRequest /\ PressEnter
  \/ FirstRequest /\ ClickSend
  \/ FirstRequest /\ ClickAnalyzeBatch
  \/ ClickNewChat
  \/ ClickBatchMode
  \/ ClickRemoveAttachedImage
  \/ \E i \in 1..MaxBatch : ClickRemoveBatchImage(i)
  \/ ClickScreenshot
  \/ SetApiKey(TRUE)
  \/ \E n \in 1..MaxRequests, outcome \in {"content", "error"} : RequestDone(n, outcome)
  \/ QueryDone(DirectQuery, DirectScript, <<[url |-> UrlHttps]>>)
  \/ DirectScriptDone("results")
  \/ DirectShotDone(FALSE)
  \/ DirectCropDone(TabImage)
  \/ CropFailed(DirectCrop)
  \/ \E msgEvent \in ScreenshotMessages : OnMessage(msgEvent)
  \/ \E p \in BOOLEAN : MessageCropDone(p, RegionImage)
  \/ \E p \in BOOLEAN : CropFailed(MessageCrop(p))

SpecCapture == Init /\ [][CaptureNext]_vars

\* the six combinations, pressed on the page
CycleEvents ==
  {KeyEvent(KeyLowerS, Ctrl, Page), KeyEvent(KeyUpperS, CtrlShift, Page),
   KeyEvent(KeyLowerN, Ctrl, Page), KeyEvent(KeySlash, NoMods, Page),
   KeyEvent(KeyEscape, NoMods, Page), KeyEvent(KeyLowerB, Ctrl, Page)}

\* The listener alone: every message the runtime may deliver, in single and in
\* batch mode
MessageNext ==
  \/ Mount
  \/ \E msgEvent \in RuntimeMessages : OnMessage(msgEvent)
  \/ \E p \in BOOLEAN : MessageCropDone(p, RegionImage)
  \/ \E p \in BOOLEAN : CropFailed(MessageCrop(p))
  \/ \E t \in {<<>>, TextHi} : TypeText(t)
  \/ ClickBatchMode
  \/ ClickRemoveAttachedImage
  \/ \E i \in 1..MaxBatch : ClickRemoveBatchImage(i)
  \/ ClickNewChat

SpecMessage == Init /\ [][MessageNext]_vars

\* Mount and destroy cycles: instances come and go on the one registry while
\* the user types, the keys of the six shortcuts are pressed and full-tab
\* captures complete or fail in the crop
CycleNext ==
  \/ Mount
  \/ Destroy
  \/ \E e \in CycleEvents : AppKeyDown(e)
  \/ \E t \in {<<>>, TextHi} : TypeText(t)
  \/ ClickBatchMode
  \/ ClickRemoveAttachedImage
  \/ QueryDone(DirectQuery, DirectScript, <<[url |-> UrlHttps]>>)
  \/ DirectScriptDone("results")
  \/ DirectShotDone(FALSE)
  \/ DirectCropDone(TabImage)
  \/ CropFailed(DirectCrop)

SpecCycle == Init /\ [][CycleNext]_vars

\* The captures alone, with everything the browser may answer: the user
\* starts full-tab captures and region selections
RegionEvents == {KeyEvent(KeyLowerS, Ctrl, Page), KeyEvent(KeyUpperS, CtrlShift, Page)}

RegionNext ==
  \/ Mount
  \/ \E e \in RegionEvents : AppKeyDown(e)
  \/ ClickScreenshot
  \/ ClickSelectRegion
  \/ \E tabs \in TabLists : QueryDone(DirectQuery, DirectScript, tabs)
  \/ \E tabs \in TabLists : QueryDone(RegionQuery, RegionScript, tabs)
  \/ \E outcome \in ScriptOutcomes : DirectScriptDone(outcome)
  \/ \E lastError \in BOOLEAN : DirectShotDone(lastError)
  \/ DirectCropDone(TabImage)
  \/ CropFailed(DirectCrop)
  \/ \E throws \in BOOLEAN : RegionScriptDone(throws)
  \/ \E lastError \in BOOLEAN : RegionShotDone(lastError)
  \/ \E r \in 0..RetryCount, ok \in BOOLEAN : InjectDone(r, ok)
  \/ \E r \in 0..RetryCount, outcome \in ShowOutcomes : ShowDone(r, outcome)

SpecRegion == Init /\ [][RegionNext]_vars

\* the callbacks of the browser and of the timers in RegionNext
RegionCallbacks ==
  \/ \E tabs \in TabLists : QueryDone(DirectQuery, DirectScript, tabs)
  \/ \E tabs \in TabLists : QueryDone(RegionQuery, RegionScript, tabs)
  \/ \E outcome \in ScriptOutcomes : DirectScriptDone(outcome)
  \/ \E lastError \in BOOLEAN : DirectShotDone(lastError)
  \/ DirectCropDone(TabImage)
  \/ CropFailed(DirectCrop)
  \/ \E throws \in BOOLEAN : RegionScriptDone(throws)
  \/ \E lastError \in BOOLEAN : RegionShotDone(lastError)
  \/ \E r \in 0..RetryCount, ok \in BOOLEAN : InjectDone(r, ok)
  \/ \E r \in 0..RetryCount, outcome \in ShowOutcomes : ShowDone(r, outcome)

\* the browser and the timers call back: a pending callback runs eventually
SpecRegionFair == SpecRegion /\ WF_vars(RegionCallbacks)

-----------------------------------------------------------------------------
(* Properties *)

Editable(t) == t.tagName \in {"INPUT", "TEXTAREA"} \/ t.isContentEditable

\* the handlers invoked by the latest delivery, in order
Invoked == SelectSeq(effects, LAMBDA x : x \in Handlers)

Delivered == event # <<>>

\* the canonical key of the delivered event
EventKey == getShortcutKey(event[1])

OnePerKey(m) ==
  /\ \A i, j \in 1..Len(m) : m[i].k = m[j].k => i = j
  /\ \A i \in 1..Len(m) : m[i].k = getShortcutKey(m[i].v)

\* C1: the registry never holds two bindings with the same canonical key, and
\* a register call whose canonical key is already present stores the new
\* binding under it without changing the number of bindings.
C1_OneBindingPerKey ==
  [][(call'.op \in {"register", "unregister"})
       => /\ OnePerKey(shortcuts')
          /\ \A b \in Bindings :
               (MapHas(shortcuts, getShortcutKey(b)) /\ Register(b))
                 => /\ Len(shortcuts') = Len(shortcuts)
                    /\ MapGet(shortcuts', getShortcutKey(b)) = b]_vars

\* a register call has just replaced a binding with another action, next to
\* a second binding that stayed
C1_Witness ==
  /\ call.op = "register"
  /\ Len(shortcuts) = 2
  /\ replaced # <<>>
  /\ MapHas(shortcuts, replaced[1].k)
  /\ MapGet(shortcuts, replaced[1].k).action # replaced[1].old

\* C2: when an event is delivered while listening on a non-editable target
\* and bindings were registered under its canonical key, exactly the handler
\* of the latest of them is invoked, and not the handler of the binding that
\* the latest one replaced.
C2_LastRegisteredWins ==
  (Delivered /\ isListening /\ ~Editable(event[1].target) /\ EventKey \in DOMAIN lastReg)
    => /\ Invoked = <<lastReg[EventKey]>>
       /\ (replaced # <<>> /\ replaced[1].k = EventKey)
            => \A i \in 1..Len(effects) : effects[i] # replaced[1].old

C2_Witness ==
  /\ Delivered /\ isListening /\ ~Editable(event[1].target)
  /\ replaced # <<>> /\ replaced[1].k = EventKey
  /\ Invoked # <<>> /\ Invoked[1] # replaced[1].old

\* C3: the delivery of an event whose target is an INPUT, a TEXTAREA or a
\* content-editable element invokes no handler and calls neither
\* preventDefault nor stopPropagation.
C3_EditableTargetIgnored ==
  (Delivered /\ Editable(event[1].target)) => effects = <<>>

\* such an event reached the listener while its combination was bound
C3_Witness ==
  /\ Delivered /\ isListening /\ Editable(event[1].target)
  /\ MapHas(shortcuts, EventKey)

\* C4: the registry starts not listening, and an event delivered while it is
\* not listening invokes no handler and suppresses nothing.
C4_NoDispatchWhenNotListening ==
  /\ ~isListening
  /\ []((Delivered /\ ~isListening) => effects = <<>>)

\* a bound combination was pressed on a non-editable target while not listening
C4_Witness ==
  /\ Delivered /\ ~isListening /\ ~Editable(event[1].target)
  /\ MapHas(shortcuts, EventKey)

\* C5: at most one listener is attached, it is attached exactly while the
\* registry is listening (so one stopListening detaches everything), and one
\* delivered event invokes at most one handler.
C5_SingleListener ==
  /\ Len(listeners) <= 1
  /\ isListening <=> (Len(listeners) = 1)
  /\ Delivered => Len(Invoked) <= 1

\* startListening was called while already listening
C5_Witness ==
  /\ call.op = "startListening" /\ call.was
  /\ Len(listeners) = 1

\* C6: a stopListening call made while not listening calls no
\* removeEventListener and leaves the listening flag, the attached listeners
\* and the bindings as they were.
C6_StopWhenNotListening ==
  [][(call'.op = "stopListening" /\ ~isListening)
       => /\ call'.dom = "none"
          /\ UNCHANGED <<isListening, listeners, shortcuts>>]_vars

\* stopListening was called while not listening, with bindings registered
C6_Witness ==
  /\ call.op = "stopListening" /\ ~call.was
  /\ shortcuts # <<>>

\* C7: the delivery, while listening and on a non-editable target, of an
\* event whose canonical key is bound calls preventDefault, then
\* stopPropagation, then the bound action, once each and nothing else.
C7_SuppressThenInvoke ==
  (Delivered /\ isListening /\ ~Editable(event[1].target) /\ MapHas(shortcuts, EventKey))
    => effects = <<"preventDefault", "stopPropagation", MapGet(shortcuts, EventKey).action>>

C7_Witness ==
  /\ Delivered /\ isListening /\ ~Editable(event[1].target)
  /\ MapHas(shortcuts, EventKey)
  /\ Len(effects) = 3

\* C8: the delivery of an event whose canonical key is not bound invokes no
\* handler, calls neither preventDefault nor stopPropagation, and leaves the
\* bindings, the listening flag and the attached listeners unchanged.
C8_UnboundEventIgnored ==
  [][(call'.op = "keydown" /\ ~MapHas(shortcuts, getShortcutKey(event'[1])))
       => /\ effects' = <<>>
          /\ UNCHANGED <<shortcuts, isListening, listeners>>]_vars

\* an unbound combination reached the listener while other bindings exist
C8_Witness ==
  /\ Delivered /\ isListening /\ ~Editable(event[1].target)
  /\ shortcuts # <<>>
  /\ ~MapHas(shortcuts, EventKey)
  /\ effects = <<>>

\* C9: while a binding registered for control+shift+"s" is stored, an event
\* with control and shift set, alt and meta clear and key "S", delivered
\* while listening on a non-editable target, suppresses the default and
\* invokes that binding's handler exactly once.
C9_CaseInsensitiveDispatch ==
  \A h \in Handlers :
    (/\ Delivered /\ isListening
     /\ ~Editable(event[1].target)
     /\ event[1] = KeyEvent(KeyUpperS, CtrlShift, event[1].target)
     /\ \E i \in 1..Len(shortcuts) : shortcuts[i].v = Binding(KeyLowerS, CtrlShift, h))
      => effects = <<"preventDefault", "stopPropagation", h>>

C9_Witness ==
  /\ Delivered /\ isListening
  /\ ~Editable(event[1].target)
  /\ event[1] = KeyEvent(KeyUpperS, CtrlShift, event[1].target)
  /\ \E i \in 1..Len(shortcuts) : shortcuts[i].v = Binding(KeyLowerS, CtrlShift, "H1")
  /\ Invoked = <<"H1">>

SameFlags(a, b) ==
  /\ a.ctrlKey = b.ctrlKey /\ a.altKey = b.altKey
  /\ a.shiftKey = b.shiftKey /\ a.metaKey = b.metaKey

SameCombination(a, b) == SameFlags(a, b) /\ ToLowerCase(a.key) = ToLowerCase(b.key)

\* C10: a stored binding and a dispatched event have the same canonical key
\* exactly when they have the same four modifier flags and the same key up
\* to letter case, and the binding an event invokes has the event's flags.
C10_KeyIdentifiesCombination ==
  (Delivered /\ isListening /\ ~Editable(event[1].target))
    => /\ \A i \in 1..Len(shortcuts) :
            (shortcuts[i].k = EventKey) <=> SameCombination(shortcuts[i].v, event[1])
       /\ effects # <<>> => SameFlags(MapGet(shortcuts, EventKey), event[1])

\* C11: unregister removes the binding stored under the canonical key of its
\* argument and nothing else: a stored binding with the argument's modifier
\* flags and the argument's key up to letter case is gone afterwards, the
\* bindings under other canonical keys stay as they were and in their order,
\* and a delivery invokes a handler only under a canonical key that was
\* registered and not unregistered since.
C11_UnregisterRemovesExactlyOne ==
  [][/\ (call'.op = "unregister")
          => LET p == call'.arg[1] IN
             /\ \A i \in 1..Len(shortcuts) :
                  SameCombination(shortcuts[i].v, p)
                    => \A j \in 1..Len(shortcuts') : shortcuts'[j].v # shortcuts[i].v
             /\ shortcuts' = SelectSeq(shortcuts,
                                       LAMBDA en : getShortcutKey(en.v) # getShortcutKey(p))
     /\ (call'.op = "keydown" /\ effects' # <<>>)
          => getShortcutKey(event'[1]) \in DOMAIN lastReg']_vars

\* unregister with key "S" has removed a binding while another one stayed
C11_Witness ==
  /\ call.op = "unregister" /\ call.hit
  /\ call.arg[1].key = KeyUpperS
  /\ Len(shortcuts) = 1
  /\ ~MapHas(shortcuts, getShortcutKey(call.arg[1]))

\* C12: an unregister call for a canonical key under which nothing is stored
\* leaves the bindings, the listening flag and the attached listeners as
\* they were.
C12_UnregisterUnknownIsNoOp ==
  [][(call'.op = "unregister" /\ ~MapHas(shortcuts, getShortcutKey(call'.arg[1])))
       => UNCHANGED <<shortcuts, isListening, listeners>>]_vars

\* unregister was called for an absent combination while bindings exist
C12_Witness ==
  /\ call.op = "unregister" /\ ~call.hit
  /\ shortcuts # <<>>

\* C13: when the action invoked by a delivery throws, the error leaves
\* handleKeyDown uncaught, the bindings, the listening flag and the attached
\* listener are what they were before the delivery, and the registry is
\* still listening.
C13_HandlerFailureLeavesState ==
  [][(call'.op = "keydown" /\ \E i \in 1..Len(effects') : effects'[i] \in Throwing)
       => /\ thrown'
          /\ UNCHANGED <<shortcuts, isListening, listeners>>
          /\ isListening' /\ listeners' = <<BoundHandleKeyDown>>]_vars

C13_Witness ==
  /\ Delivered /\ thrown
  /\ Invoked = <<"H2">>
  /\ isListening /\ shortcuts # <<>>

\* C14: a step changes the bindings only if it is a register or an
\* unregister call, and changes the listening flag or the attached listeners
\* only if it is a startListening or a stopListening call.
C14_FrameOfOperations ==
  [][/\ shortcuts' # shortcuts => call'.op \in {"register", "unregister"}
     /\ (isListening' # isListening \/ listeners' # listeners)
          => call'.op \in {"startListening", "stopListening"}]_vars

\* the registry was started again after a stop and still holds its bindings
C14_Witness ==
  /\ call.op = "startListening" /\ ~call.was
  /\ isListening
  /\ Len(shortcuts) = 2

\* C15: a register call stores its argument under the argument's canonical
\* key, and a register call that repeats the call before it with the same
\* binding leaves the bindings, the listening flag and the listeners as the
\* first call left them.
C15_RegisterIdempotent ==
  [][(call'.op = "register")
       => /\ MapHas(shortcuts', getShortcutKey(call'.arg[1]))
          /\ MapGet(shortcuts', getShortcutKey(call'.arg[1])) = call'.arg[1]
          /\ (call.op = "register" /\ call.arg = call'.arg)
               => UNCHANGED <<shortcuts, isListening, listeners>>]_vars

\* the same binding was registered twice in a row, next to another binding
C15_Witness ==
  /\ call.op = "register" /\ call.rep
  /\ Len(shortcuts) = 2

\* the names of the modifiers of b that are set, in the order ctrl, alt, shift, meta
ModifierNames(b) ==
  LET all == <<[n |-> "ctrl", on |-> b.ctrlKey], [n |-> "alt", on |-> b.altKey],
               [n |-> "shift", on |-> b.shiftKey], [n |-> "meta", on |-> b.metaKey]>>
      set == SelectSeq(all, LAMBDA x : x.on)
  IN [i \in 1..Len(set) |-> set[i].n]

\* C16: a register call whose binding has no primary key stores the binding
\* under the key made of its modifier names joined with '+' and nothing more.
C16_DegenerateKeyAccepted ==
  [][(call'.op = "register" /\ call'.arg[1].key = NoKey)
       => /\ MapHas(shortcuts', Join(ModifierNames(call'.arg[1]), "+"))
          /\ MapGet(shortcuts', Join(ModifierNames(call'.arg[1]), "+")) = call'.arg[1]]_vars

C16_Witness ==
  /\ call.op = "register" /\ call.arg[1].key = NoKey
  /\ MapHas(shortcuts, "ctrl+shift")
  /\ MapGet(shortcuts, "ctrl+shift").key = NoKey

\* C18: getShortcuts returns one binding for each canonical key registered
\* and not unregistered since, each with the action of the latest register
\* call under that key, without changing the registry; removing an element
\* from the returned array does not change the bindings.
C18_ListIsSnapshot ==
  [][/\ (call'.op = "getShortcuts")
          => /\ Len(listed'.items) = Cardinality(DOMAIN lastReg)
             /\ \A i \in 1..Len(listed'.items) :
                  /\ getShortcutKey(listed'.items[i]) \in DOMAIN lastReg
                  /\ listed'.items[i].action = lastReg[getShortcutKey(listed'.items[i])]
             /\ UNCHANGED <<shortcuts, isListening, listeners>>
     /\ (call'.op = "listPop") => UNCHANGED <<shortcuts, isListening, listeners>>]_vars

\* the caller removed an element from a list of two while both bindings stay
C18_Witness ==
  /\ call.op = "listPop"
  /\ Len(listed.items) = 1
  /\ Len(shortcuts) = 2

RECURSIVE Flatten(_)
Flatten(ss) == IF ss = <<>> THEN <<>> ELSE Head(ss) \o Flatten(Tail(ss))

\* C17: the actions invoked so far are, in order, the actions of the bindings
\* that the delivered events matched when they were delivered; an event that
\* matched nothing contributes nothing, and nothing is invoked later or twice.
C17_InvocationsFollowDeliveries ==
  invocations = Flatten(delivered)

\* two matching deliveries with different actions and one that matched nothing
C17_Witness ==
  /\ Len(delivered) = 3
  /\ \E i \in 1..3 : delivered[i] = <<>>
  /\ Len(invocations) = 2
  /\ invocations[1] # invocations[2]

\* the modifier labels of shortcut b, each followed by the separator, when the
\* labels are c, a, s for control, alt, shift and m for meta ("" for none)
LabelPrefix(b, c, a, s, m, sep) ==
  (IF b.ctrlKey THEN c \o sep ELSE "")
    \o (IF b.altKey THEN a \o sep ELSE "")
    \o (IF b.shiftKey THEN s \o sep ELSE "")
    \o (IF b.metaKey /\ m # "" THEN m \o sep ELSE "")

\* C20: the result of formatShortcut is the labels of the modifiers that are
\* set, in the order control, alt, shift, meta, then the key glyph: on the
\* Macintosh platform the labels are the command, option and shift glyphs,
\* meta is left out and nothing separates the parts; elsewhere the labels are
\* Ctrl, Alt, Shift, Meta and the parts are separated by "+". Control with
\* Enter gives "Ctrl+" and the return glyph, or the command and return glyphs.
C20_FormatLabelsAndOrder ==
  formatted # <<>> =>
    LET b == formatted[1].shortcut
        out == formatted[1].out
    IN /\ out = IF platform = PlatformMac
                  THEN LabelPrefix(b, GlyphCommand, GlyphOption, GlyphShift, "", "")
                         \o KeyName(b.key)
                  ELSE LabelPrefix(b, "Ctrl", "Alt", "Shift", "Meta", "+") \o KeyName(b.key)
       /\ b = Binding(KeyEnter, Ctrl, "H1")
            => out = IF platform = PlatformMac THEN "U+2318U+21B5" ELSE "Ctrl+U+21B5"

\* all four modifiers with Enter were formatted on the Macintosh platform
C20_Witness ==
  /\ formatted # <<>>
  /\ platform = PlatformMac
  /\ formatted[1].shortcut = Binding(KeyEnter, Mods(TRUE, TRUE, TRUE, TRUE), "H1")
  /\ formatted[1].out = "U+2318U+2325U+21E7U+21B5"

\* the glyph the substitution table gives each key of FormatKeys
TableGlyph(key) ==
  IF key \in {KeyEnter, KeyEnterUpper} THEN GlyphReturn
  ELSE IF key = KeyEscape THEN "Esc"
  ELSE IF key = KeyArrowUp THEN GlyphUp
  ELSE IF key = KeyArrowDown THEN GlyphDown
  ELSE IF key = KeyArrowLeft THEN GlyphLeft
  ELSE IF key = KeyArrowRight THEN GlyphRight
  ELSE IF key = KeySpace THEN "Space"
  ELSE IF key = KeySlash THEN "/"
  ELSE "S"

\* C21: the last part of the result of formatShortcut is the glyph of the key:
\* the return glyph for Enter, "Esc" for Escape, the four arrows for the arrow
\* keys and "Space" for the space, whatever the case of the letters of the key
\* ("Enter" and "ENTER" both give the return glyph); any other key gives its
\* identifier in upper case ("s" and "S" give "S", "/" gives "/").
C21_KeyGlyphTable ==
  formatted # <<>> =>
    LET b == formatted[1].shortcut
        out == formatted[1].out
    IN out = (IF platform = PlatformMac
                THEN LabelPrefix(b, GlyphCommand, GlyphOption, GlyphShift, "", "")
                ELSE LabelPrefix(b, "Ctrl", "Alt", "Shift", "Meta", "+"))
               \o TableGlyph(b.key)

\* "ENTER" alone was formatted as the return glyph
C21_Witness ==
  /\ formatted # <<>>
  /\ formatted[1].shortcut = Binding(KeyEnterUpper, Mods(FALSE, FALSE, FALSE, FALSE), "H1")
  /\ formatted[1].out = GlyphReturn

-----------------------------------------------------------------------------
(* Properties of MainContent *)

EscapeOnPage == KeyEvent(KeyEscape, NoMods, Page)

\* C22: pressing Escape on a non-editable target while batch mode is on
\* exits batch mode: after the key press batch mode is off.
C22_EscapeExitsBatchMode ==
  [][(isBatchMode /\ AppKeyDown(EscapeOnPage)) => ~isBatchMode']_vars

\* the screenshot img with crop area area went where the mode says
Placed(img, area) ==
  IF isBatchMode
    THEN /\ batchImages' = Append(batchImages, [imageData |-> img, cropArea |-> area])
         /\ attachedImage' = attachedImage
    ELSE /\ attachedImage' = img
         /\ batchImages' = batchImages

\* C23: while batch mode is on, a screenshot whose capture and crop complete
\* (a full-tab capture or a screenshotCaptured message) is appended to the end
\* of the batch queue and the attached image is unchanged; while batch mode is
\* off it becomes the attached image and the batch queue is unchanged.
C23_ScreenshotGoesWhereModeSays ==
  [][/\ DirectCropDone(TabImage) => Placed(TabImage, AreaFull)
     /\ (\E p \in BOOLEAN : MessageCropDone(p, RegionImage)) => Placed(RegionImage, AreaRegion)]_vars

C23_Witness ==
  /\ isBatchMode
  /\ attachedImage = RegionImage
  /\ Len(batchImages) = 2
  /\ batchImages[2] = [imageData |-> RegionImage, cropArea |-> AreaRegion]

\* the message processBatchImages is to append for queue q: one text part, then
\* one image part for each image of q, in the order of q
IsBatchMessage(msg, q) ==
  /\ msg.role = "user"
  /\ msg.array
  /\ Len(msg.parts) = 1 + Len(q)
  /\ msg.parts[1].type = "text"
  /\ \A i \in 1..Len(q) : msg.parts[i + 1] = ImagePart(q[i].imageData)

\* C24: processBatchImages with a queue of N >= 1 images and an API key set
\* appends exactly one user message made of one text part followed by the N
\* images in queue order, and in the same step, while the request is in flight,
\* empties the queue and turns batch mode off; the completion of a request,
\* failed or not, leaves the queue and the mode alone; with an empty queue
\* processBatchImages changes nothing.
C24_BatchSend ==
  [][/\ (processBatchImages /\ batchImages # <<>> /\ apiKey) =>
          /\ Len(messages') = Len(messages) + 1
          /\ SubSeq(messages', 1, Len(messages)) = messages
          /\ IsBatchMessage(messages'[Len(messages')], batchImages)
          /\ batchImages' = <<>>
          /\ ~isBatchMode'
          /\ requests' # {}
     /\ (processBatchImages /\ batchImages = <<>>) =>
          UNCHANGED <<message, messages, isLoading, errorMessage, attachedImage, cropAreaInfo,
                      batchImages, isBatchMode, requests, issued>>
     /\ (\E n \in 1..MaxRequests, outcome \in Outcomes : RequestDone(n, outcome)) =>
          UNCHANGED <<batchImages, isBatchMode>>]_vars

C24_Witness ==
  /\ Len(messages) = 1
  /\ Len(messages[1].parts) = 3
  /\ messages[1].parts[2] = ImagePart(RegionImage)
  /\ messages[1].parts[3] = ImagePart(TabImage)
  /\ batchImages = <<>>
  /\ ~isBatchMode
  /\ requests = {1}

\* the key events of the six combinations, as the browser delivers them on the
\* page (with Shift held the key of the event is the upper-case letter), in the
\* order of SetupShortcuts
ComboEvents ==
  <<KeyEvent(KeyLowerS, Ctrl, Page),
    KeyEvent(KeyUpperS, CtrlShift, Page),
    KeyEvent(KeyLowerN, Ctrl, Page),
    KeyEvent(KeySlash, NoMods, Page),
    KeyEvent(KeyEscape, NoMods, Page),
    KeyEvent(KeyLowerB, Ctrl, Page)>>

\* C25: once MainContent has registered its shortcuts, Ctrl+S, Ctrl+Shift+S,
\* Ctrl+N, Ctrl+B, / and Escape have pairwise distinct canonical keys, the
\* registry holds six bindings, and each combination invokes its own action
\* and nothing else.
C25_SixShortcutsSixActions ==
  mounted =>
    /\ \A i, j \in 1..Len(SetupShortcuts) :
         getShortcutKey(SetupShortcuts[i]) = getShortcutKey(SetupShortcuts[j]) => i = j
    /\ Len(shortcuts) = 6
    /\ \A i \in 1..Len(SetupShortcuts) :
         /\ MapHas(shortcuts, getShortcutKey(SetupShortcuts[i]))
         /\ Dispatched(ComboEvents[i]) = <<SetupShortcuts[i].action>>

C25_Witness ==
  /\ mounted
  /\ Len(shortcuts) = 6
  /\ MapGet(shortcuts, "ctrl+s").action = "TAKE_SCREENSHOT"
  /\ MapGet(shortcuts, "ctrl+shift+s").action = "SELECT_REGION"
  /\ Dispatched(ComboEvents[2]) = <<"SELECT_REGION">>

\* C26: at most one chat request is in flight at any time, and isLoading is
\* true exactly while a request issued by sendMessage, sendMessageWithImage or
\* processBatchImages is in flight.
C26_OneRequestInFlight ==
  /\ Cardinality(requests) <= 1
  /\ isLoading <=> requests # {}

C26_Witness ==
  /\ isLoading
  /\ requests = {2}
  /\ Len(messages) = 3
  /\ messages[2] = Reply(1)

\* the user message of request n is in the list ms
HasUserMessage(ms, n) == \E i \in 1..Len(ms) : ms[i].role = "user" /\ ms[i].req = n

\* C27: every chat request that completes (success, error response or thrown
\* exception) ends with isLoading false and with exactly one of two outcomes:
\* one assistant message appended and errorMessage empty, or errorMessage set
\* and no assistant message appended; in both cases the user message appended
\* before the request is still in messages.
C27_CompletionOutcome ==
  [][\A n \in 1..MaxRequests, outcome \in Outcomes :
       RequestDone(n, outcome) =>
         /\ ~isLoading'
         /\ \/ messages' = Append(messages, Reply(n)) /\ errorMessage' = ""
            \/ messages' = messages /\ errorMessage' # ""
         /\ HasUserMessage(messages', n)]_vars

\* C28: after startNewChat nothing of the previous conversation is in
\* messages: the reply to a request issued before the reset is never appended
\* after it, so every assistant message in messages is preceded by the user
\* message it answers.
C28_ReplyFollowsItsUserMessage ==
  \A i \in 1..Len(messages) :
    messages[i].role = "assistant" =>
      \E j \in 1..(i - 1) : messages[j].role = "user" /\ messages[j].req = messages[i].req

\* C29: a capture started from the Ctrl+S or Ctrl+Shift+S shortcut or from the
\* capture buttons never attaches its image while a chat request is loading or
\* while another image is attached: whenever a completed capture sets the
\* attached image, no request is loading and no image was attached.
C29_NoAttachWhileLoadingOrAttached ==
  [][(/\ ~isBatchMode
      /\ \/ DirectCropDone(TabImage)
         \/ \E p \in BOOLEAN : MessageCropDone(p, RegionImage)) =>
       (~isLoading /\ attachedImage = Null)]_vars

\* C30: in every reachable state attachedImage is null if and only if
\* cropAreaInfo is null.
C30_ImageAndCropAreaTogether == attachedImage = Null <=> cropAreaInfo = Null

C30_Witness ==
  /\ attachedImage = Null
  /\ cropAreaInfo = Null
  /\ requests = {1}
  /\ Len(messages) = 1
  /\ messages[1].array
  /\ messages[1].parts[2] = ImagePart(RegionImage)

\* C31: in every reachable state a non-empty batch queue implies that batch
\* mode is on: turning batch mode off empties the queue, and no capture
\* completion adds to the queue while batch mode is off.
C31_QueueOnlyInBatchMode == batchImages # <<>> => isBatchMode

\* a batch of two was sent, batch mode was entered again and a screenshot queued
C31_Witness ==
  /\ isBatchMode
  /\ Len(batchImages) = 1
  /\ batchImages[1].imageData = RegionImage
  /\ issued = 1
  /\ Len(messages) >= 1
  /\ messages[1].array
  /\ Len(messages[1].parts) = 3

\* the attempts of showSelectionUI pending with retry count r
Attempts(t, r) == t[Inject(r)] + t[Show(r)]

\* the errors showSelectionUI reports when it gives up
RegionFailedErrors ==
  {"Region selection failed: " \o ThrownMessage,
   "Region selection failed: " \o LastErrorMessage,
   "Region selection failed: Failed to show selection UI"}

\* a capture is started
CaptureStarted ==
  tasks'[RegionQuery] > tasks[RegionQuery] \/ tasks'[DirectQuery] > tasks[DirectQuery]

\* C32, attempts: an attempt to inject the content script and show the
\* selection UI starts either with the full retry count, when the screenshot of
\* the tab was taken, or with one retry less than an attempt that just failed,
\* so one selection makes three attempts at most.
C32_AttemptsCountDown ==
  [][\A r \in 0..RetryCount :
       tasks'[Inject(r)] > tasks[Inject(r)] =>
         IF r = RetryCount
           THEN tasks'[RegionShot] < tasks[RegionShot]
           ELSE Attempts(tasks', r + 1) < Attempts(tasks, r + 1)]_vars

\* C32, success: an attempt that succeeds starts no other attempt and sets no error.
C32_NoRetryAfterSuccess ==
  [][(\E r \in 0..RetryCount : ShowDone(r, "success")) =>
       /\ \A r \in 0..RetryCount : tasks'[Inject(r)] = tasks[Inject(r)]
       /\ errorMessage' = errorMessage]_vars

\* C32, error: the "Region selection failed" error is set only by the failure
\* of the attempt that has no retry left, the third one.
C32_ErrorAfterThirdFailure ==
  [][(errorMessage' # errorMessage /\ errorMessage' \in RegionFailedErrors) =>
       Attempts(tasks', 0) < Attempts(tasks, 0)]_vars

\* C32: region selection tries to inject the content script and show the
\* selection UI at most 3 times in total, never retries after an attempt
\* succeeds, sets the "Region selection failed" error only after the third
\* consecutive failure, and always terminates: once no more captures are
\* started, no callback stays pending.
C32_RegionRetriesBounded ==
  /\ C32_AttemptsCountDown
  /\ C32_NoRetryAfterSuccess
  /\ C32_ErrorAfterThirdFailure
  /\ <>[][~CaptureStarted]_vars => <>[](Pending(tasks) = 0)

\* the third attempt has failed
C32_Witness ==
  /\ errorMessage = "Region selection failed: Failed to show selection UI"
  /\ Pending(tasks) = 0

\* C33: when no API key is configured, sendMessage (with non-blank text or an
\* attached image), sendMessageWithImage and processBatchImages (with a
\* non-empty queue) set errorMessage to the API-key error, start no request and
\* leave messages, the message text, the attached image, the batch queue,
\* batch mode and isLoading unchanged.
C33_NoApiKeyNoRequest ==
  [][/\ (/\ ~apiKey
         /\ \/ sendMessage /\ (Trim(message) # <<>> \/ attachedImage # Null)
            \/ processBatchImages /\ batchImages # <<>>) =>
          /\ errorMessage' = ApiKeyError
          /\ UNCHANGED <<messages, message, attachedImage, cropAreaInfo, batchImages,
                         isBatchMode, isLoading, requests, issued>>
     /\ (~apiKey /\ \E t \in Texts, img \in {TabImage, RegionImage} :
                       sendMessageWithImage(t, img)) =>
          /\ errorMessage' = ApiKeyError
          /\ UNCHANGED <<messages, isLoading, requests, issued>>]_vars

\* the send of a typed text with an attached image was refused
C33_Witness ==
  /\ ~apiKey
  /\ errorMessage = ApiKeyError
  /\ message = TextHi
  /\ attachedImage = TabImage
  /\ messages = <<>>
  /\ issued = 0

\* what chrome.tabs.query answers when there is no active tab, or one whose URL
\* starts with chrome://, edge://, brave://, about: or chrome-extension://
NoCaptureTabs ==
  {<<>>} \cup {<<[url |-> u]>> : u \in {UrlChrome, UrlEdge, UrlBrave, UrlAbout, UrlExtension}}

\* C34: when there is no active tab or the active tab's URL starts with
\* chrome://, edge://, brave://, about: or chrome-extension://,
\* directCaptureScreenshot and captureSelectedRegion set errorMessage, execute
\* no script, capture no screenshot (the capture ends there, with no callback
\* scheduled), and leave the attached image and the batch queue unchanged.
C34_NoCaptureOfBrowserPages ==
  [][\A tabs \in NoCaptureTabs :
       (\/ QueryDone(DirectQuery, DirectScript, tabs)
        \/ QueryDone(RegionQuery, RegionScript, tabs)) =>
         /\ errorMessage' = (IF tabs = <<>> THEN NoTabError ELSE RestrictedError)
         /\ Pending(tasks') = Pending(tasks) - 1
         /\ \A k \in TaskKinds : tasks'[k] <= tasks[k]
         /\ UNCHANGED <<attachedImage, cropAreaInfo, batchImages>>]_vars

\* a capture on a browser page was refused
C34_Witness ==
  /\ errorMessage = RestrictedError
  /\ Pending(tasks) = 0
  /\ attachedImage = Null

\* C36: on a screenshotCaptured message that lacks imageData or cropArea the
\* listener sets errorMessage to "Screenshot data incomplete" and attaches or
\* queues nothing (no crop is started), yet still responds with success; a
\* message with any other action gets no response from this listener and
\* changes no state.
C36_IncompleteMessage ==
  [][\A msgEvent \in RuntimeMessages :
       OnMessage(msgEvent) =>
         /\ (msgEvent.action = "screenshotCaptured"
               /\ ~(msgEvent.imageData /\ msgEvent.cropArea)) =>
              /\ errorMessage' = IncompleteError
              /\ UNCHANGED <<attachedImage, cropAreaInfo, batchImages, tasks>>
              /\ response'.success
         /\ msgEvent.action # "screenshotCaptured" =>
              /\ ~response'.success /\ ~response'.returned
              /\ UNCHANGED <<mounted, message, messages, isLoading, errorMessage,
                             attachedImage, cropAreaInfo, batchImages, isBatchMode, apiKey,
                             requests, issued, tasks>>]_vars

\* an incomplete message was answered while an image is queued
C36_Witness ==
  /\ errorMessage = IncompleteError
  /\ response = Responded(TRUE, TRUE)
  /\ attachedImage = Null
  /\ Len(batchImages) = 1
  /\ Pending(tasks) = 0

\* C35: across mount and destroy cycles of MainContent on the shared registry
\* no shortcut handler created by a destroyed instance is ever invoked: while
\* no instance is mounted the registry does not listen, while one is mounted
\* all six bindings are its own, and so every key event that invokes a
\* handler invokes one of the mounted instance.
C35_NoStaleHandler ==
  /\ ~mounted => ~isListening /\ listeners = <<>>
  /\ mounted => \A k \in 1..Len(shortcuts) : shortcuts[k].v.owner = instance
  /\ \A e \in CycleEvents :
       Dispatched(e) # <<>> => mounted /\ OwnerOf(e) = instance

\* the second instance is mounted and its Ctrl+B handler has run
C35_Witness ==
  /\ mounted
  /\ instance = 2
  /\ isBatchMode
  /\ Len(shortcuts) = 6
  /\ OwnerOf(KeyEvent(KeyLowerB, Ctrl, Page)) = 2

=============================================================================
